---- MODULE Spec2Model ----
(***************************************************************************)
(* Vectorization and preference-learning subsystem of glean: the embedding *)
(* configuration state machine (admin endpoints and worker jobs), the      *)
(* circuit breaker of the embedding tasks, and the lock-protected          *)
(* moving-average update of the user preference vectors.                   *)
(***************************************************************************)
EXTENDS Integers, Sequences, FiniteSets, TLC

\* ---------------------------------------------------------------- bounds
EntryIds == {"e1", "e2"}
Users == {"u1"}
MaxQueued == 1
MaxVersion == 2
MaxErrorCount == 6
MaxSamples == 20
MaxWeight == 27
MaxGen == 3
MaxLen == 4
NumSlots == 2

\* ------------------------------------------------------ program constants
CONSECUTIVE_FAILURES_THRESHOLD == 5

Null == "null"

\* VectorizationStatus
DISABLED == "disabled"
IDLE == "idle"
VALIDATING == "validating"
REBUILDING == "rebuilding"
ERROR == "error"
VectorizationStatus == {DISABLED, IDLE, VALIDATING, REBUILDING, ERROR}

\* Entry.embedding_status
EmbeddingStatus == {"pending", "processing", "done", "failed"}

Providers == {"openai", "local"}
Models == {"m1", "my model"}
Dimensions == {8, 16}
ApiKeys == {Null, "k1"}
BaseUrls == {Null, "url1"}
Timeouts == {30, 60}

Polarities == {"positive", "negative"}

\* the two Milvus collections, and the MilvusClient of each worker process
CollectionNames == {"entries", "prefs"}
Clients == {"w1", "w2"}
Absent == <<>>
NoHandle == 0

\* a user's preference vector in one dimension: the stored sample count (in
\* tenths; 0: no vector stored), the stored embedding, and the embedding
\* before normalisation as numerator and denominator
NoVector == [count |-> 0, embedding |-> 0, pre |-> <<0, 1>>]

\* EmbeddingConfig with the schema defaults (the record of a fresh deployment)
EmbeddingConfig ==
    [enabled |-> FALSE,
     provider |-> "openai",
     model |-> "m1",
     dimension |-> 8,
     api_key |-> Null,
     base_url |-> Null,
     timeout |-> 30,
     status |-> DISABLED,
     version |-> 0,
     last_error |-> Null,
     error_count |-> 0,
     rebuild_id |-> Null,
     rebuild_started_at |-> Null]

\* ------------------------------------------------------------------ jobs
Job(name, user, entry, signal) ==
    [name |-> name, user |-> user, entry |-> entry, signal |-> signal]

JobValidate == Job("validate_and_rebuild_embeddings", Null, Null, Null)
JobRebuild == Job("rebuild_embeddings", Null, Null, Null)
JobGenerate(e) == Job("generate_entry_embedding", Null, e, Null)
JobBatch == Job("batch_generate_embeddings", Null, Null, Null)
JobRetry == Job("retry_failed_embeddings", Null, Null, Null)
JobUpdatePref(u, e, s) == Job("update_user_preference", u, e, s)
JobRebuildPref(u) == Job("rebuild_user_preference", u, Null, Null)

Signals == {"like", "dislike"}

Jobs ==
    {JobValidate, JobRebuild, JobBatch, JobRetry}
        \cup {JobGenerate(e) : e \in EntryIds}
        \cup {JobUpdatePref(u, e, s) : u \in Users, e \in EntryIds, s \in Signals}
        \cup {JobRebuildPref(u) : u \in Users}

VARIABLES
    cfg,        \* the stored EmbeddingConfig record (system_configs row "embedding")
    entries,    \* the entry rows: id -> Entry.embedding_status
    embedding_error, \* the entry rows: id -> Entry.embedding_error
    vectors,    \* ids that have a vector in the entries collection
    queue,      \* the arq queue: number of enqueued jobs of every kind
    liked,      \* UserEntry.is_liked of every (user, entry)
    prefs,      \* preferences collection: (user, polarity) -> sample count in tenths, 0 = no vector
    stats,      \* users that have a UserPreferenceStats row
    tasks,      \* the embedding tasks in flight, one per worker slot
    failures,   \* failures since the last success or reset of the counter
    lock,       \* the Redis locks preference_lock:{user}:{polarity}: holder or Null
    calls,      \* the _update_preference_vector calls in flight, one per caller
    ledger,     \* per preference vector: the weight handed to calls, and whether
                \* every call so far kept mutual exclusion
    collections,\* Milvus: per collection, Absent or its description and incarnation
    handles,    \* per MilvusClient: the cached Collection objects (incarnation or NoHandle)
    pv,         \* one stored preference vector: sample count and 1-d embedding
    history,    \* per user: the entries reacted to, in the order of the reactions
    replayed,   \* per user: the entries the last rebuild_from_history passed on, in order
    clock,      \* time.time(), in seconds
    limiter,    \* the RateLimiter: rpm, the holder of its lock, _timestamps
    acquirers,  \* the acquire() calls in flight, one per caller
    recorded,   \* every timestamp acquire() has appended, in order
    recreating, \* the recreate_collections calls in flight, one per client
    dropping,   \* the collections (name, incarnation) whose drop was requested
    scorerows,  \* what a ScoreService reads: article vectors, preference vectors, statistics
    scored,     \* the result of the last scoring call
    queries,    \* per ScoreService instance: its calls and its statistics queries per user
    filtered,   \* the last filter expression a MilvusClient built, and the ids it was built from
    model_cache,\* sentence_transformer_provider._model_cache: the model names it holds
    model_lock, \* sentence_transformer_provider._model_lock: the thread holding it, or Null
    own_model,  \* per SentenceTransformerProvider: whether self._model is set
    getters,    \* the _get_model calls in flight, one per thread
    jobs,       \* the generate_entry_embedding jobs in flight, one per worker slot,
                \* each with the configuration it read
    clients,    \* per worker slot: the RateLimiter of the EmbeddingClient its job built
    last        \* the operation that ran last and its result

vars == <<cfg, entries, embedding_error, vectors, queue, liked, prefs, stats, tasks, failures,
          lock, calls, ledger, collections, handles, pv, history, replayed,
          clock, limiter, acquirers, recorded, recreating, dropping,
          scorerows, scored, queries, filtered,
          model_cache, model_lock, own_model, getters, jobs, clients, last>>

\* the state of the preference-vector calls
locking == <<lock, calls, ledger>>

\* the scoring service, the rows it reads and its last result
scoring == <<scorerows, scored, queries>>

\* the filter expressions, the model cache of the local provider and the
\* rate limiters of the embedding clients
auxiliary == <<filtered, model_cache, model_lock, own_model, getters, jobs, clients>>

\* the model cache of the local provider, its lock and its callers
loading == <<model_cache, model_lock, own_model, getters>>

\* the recreate_collections calls and the drops the store has not finished
recreation == <<recreating, dropping>>

\* the rate limiter, its callers and the wall clock
limiting == <<clock, limiter, acquirers, recorded>>

\* the vector store's collections and the clients' handles on them
milvus == <<collections, handles>>

\* the reaction order and the replay order of the preference rebuild
replaying == <<history, replayed>>

store == <<entries, embedding_error, vectors, liked, prefs, stats>>

Slots == 1..NumSlots

\* a worker slot: the task's position, the entry being embedded, the entries
\* still to do, whether the service reported a success, whether it entered its
\* try block (text extraction, provider call, insert), the counter value read
\* by the error handler, and the ordinal of the failure
IdleTask == [pc |-> "idle", job |-> Null, entry |-> Null, todo |-> {},
             hit |-> FALSE, called |-> FALSE, n |-> 0, k |-> 0]

Callers == {"c1", "c2"}

\* no preference vector of a polarity, no statistics row
NoPreference == [present |-> FALSE, embedding |-> <<>>, sample_count |-> 0]

NoStats == [present |-> FALSE,
            source_affinity |-> [positive |-> 0, negative |-> 0],
            author_affinity |-> [positive |-> 0, negative |-> 0]]

\* the store before any article is embedded and any signal counted
NoRows == [seeded |-> FALSE,
           embeddings |-> [e \in EntryIds |-> <<>>],
           prefs |-> [p \in Polarities |-> NoPreference],
           stats |-> NoStats]

NoScore == [call |-> "none"]

\* a new ScoreService
\* the executor threads that encode texts, and the provider objects of the
\* embedding clients with the model name each was constructed for
Threads == {"t1", "t2", "t3"}
ProviderModels == [p1 |-> "m1", p2 |-> "m1", p3 |-> "my model"]
IdleJob == [pc |-> "idle", entry |-> Null, user |-> Null, provider |-> Null, model |-> Null, dimension |-> 0]
IdleGet == [pc |-> "idle", provider |-> Null]
\* a job that has built no EmbeddingClient
NoClient == [pc |-> "none", rpm |-> 0, timestamps |-> <<>>]
NoFilter == [call |-> "none", ids |-> <<>>, expr |-> <<>>]
NoQueries == [calls |-> 0, stats |-> [u \in Users |-> 0]]

\* a recreate_collections call: its position, its arguments and the loop
\* variable of its poll loop
IdleRecreate == [pc |-> "idle", dimension |-> 0, provider |-> Null,
                 model |-> Null, i |-> 0]

\* EmbeddingClient._limiter before the client is built
NoLimiter == [rpm |-> 0, lock |-> Null, timestamps |-> <<>>]

\* an acquire() call: its position and the time its sleep ends
IdleAcquire == [pc |-> "idle", wake |-> 0]

\* a call of _update_preference_vector: its position, arguments, whether its
\* service has a Redis client, whether it found the lock taken, and the
\* sample count it read
IdleCall == [pc |-> "idle", user |-> Null, signal |-> Null, redis |-> FALSE,
             waited |-> FALSE, read |-> 0]

\* redis.enqueue_job: one more job of this kind in the queue
Enqueue(q, j) == [q EXCEPT ![j] = @ + 1]

CanEnqueue(js) == \A j \in js : queue[j] < MaxQueued

Init ==
    /\ cfg = EmbeddingConfig
    /\ entries = <<>>
    /\ embedding_error = <<>>
    /\ vectors = {}
    /\ queue = [j \in Jobs |-> 0]
    /\ liked = [u \in Users |-> [e \in EntryIds |-> "none"]]
    /\ prefs = [u \in Users |-> [p \in Polarities |-> 0]]
    /\ stats = {}
    /\ tasks = [s \in Slots |-> IdleTask]
    /\ failures = 0
    /\ lock = [u \in Users |-> [p \in Polarities |-> Null]]
    /\ calls = [c \in Callers |-> IdleCall]
    /\ ledger = [u \in Users |-> [p \in Polarities |-> [sum |-> 0, clean |-> TRUE]]]
    /\ collections = [c \in CollectionNames |-> [description |-> Absent, gen |-> 0]]
    /\ handles = [w \in Clients |-> [c \in CollectionNames |-> NoHandle]]
    /\ pv = [p \in Polarities |-> NoVector]
    /\ history = [u \in Users |-> <<>>]
    /\ replayed = [u \in Users |-> <<>>]
    /\ clock = 0
    /\ limiter = NoLimiter
    /\ acquirers = [a \in Callers |-> IdleAcquire]
    /\ recorded = <<>>
    /\ recreating = [w \in Clients |-> IdleRecreate]
    /\ dropping = {}
    /\ scorerows = NoRows
    /\ scored = NoScore
    /\ queries = NoQueries
    /\ filtered = NoFilter
    /\ model_cache = {}
    /\ model_lock = Null
    /\ own_model = [p \in DOMAIN ProviderModels |-> FALSE]
    /\ getters = [t \in Threads |-> IdleGet]
    /\ jobs = [s \in Slots |-> IdleJob]
    /\ clients = [s \in Slots |-> NoClient]
    /\ last = "init"

\* ------------------------------------------------- TypedConfigService
\* update_embedding_version: a fresh uuid4 token
update_embedding_version(c) == [c EXCEPT !.version = @ + 1]

\* set_embedding_status(status, error)
set_embedding_status(c, status, error) ==
    IF error # Null
    THEN [c EXCEPT !.status = status,
                   !.last_error = error,
                   !.error_count = @ + 1]
    ELSE IF status = IDLE
    THEN [c EXCEPT !.status = status, !.last_error = Null, !.error_count = 0]
    ELSE [c EXCEPT !.status = status]

complete_rebuild(c) ==
    [c EXCEPT !.status = IDLE,
              !.rebuild_id = Null,
              !.rebuild_started_at = Null,
              !.error_count = 0,
              !.last_error = Null]
\* enable_embedding without the early return for an enabled configuration
enable_embedding_again ==
    /\ CanEnqueue({JobValidate})
    /\ cfg' = [cfg EXCEPT !.enabled = TRUE, !.status = VALIDATING]
    /\ queue' = Enqueue(queue, JobValidate)
    /\ last' = "enable:ok"
    /\ UNCHANGED <<store, tasks, locking, milvus, pv, limiting, recreation, scoring, auxiliary, replaying, failures>>

\* ---------------------------------------------------- admin endpoints
\* POST /embedding/enable
enable_embedding ==
    IF cfg.enabled
    THEN UNCHANGED vars
    ELSE /\ CanEnqueue({JobValidate})
         /\ cfg' = [cfg EXCEPT !.enabled = TRUE, !.status = VALIDATING]
         /\ queue' = Enqueue(queue, JobValidate)
         /\ last' = "enable:ok"
         /\ UNCHANGED <<store, tasks, locking, milvus, pv, limiting, recreation, scoring, auxiliary, replaying, failures>>
\* disable_embedding that stores the status only
disable_embedding_status_only ==
    /\ cfg' = [cfg EXCEPT !.status = DISABLED,
                          !.rebuild_id = Null,
                          !.rebuild_started_at = Null]
    /\ last' = "disable"
    /\ UNCHANGED <<store, queue, tasks, locking, milvus, pv, limiting, recreation, scoring, auxiliary, replaying, failures>>

\* POST /embedding/disable
disable_embedding ==
    /\ cfg' = [cfg EXCEPT !.enabled = FALSE,
                          !.status = DISABLED,
                          !.rebuild_id = Null,
                          !.rebuild_started_at = Null]
    /\ last' = "disable"
    /\ UNCHANGED <<store, queue, tasks, locking, milvus, pv, limiting, recreation, scoring, auxiliary, replaying, failures>>

\* the request body of PUT /embedding/config: the fields that were set
RebuildFields == {"provider", "model", "dimension", "api_key", "base_url"}

AllRequests ==
    {[enabled |-> TRUE], [enabled |-> FALSE], [timeout |-> 60], [timeout |-> 30],
     [provider |-> "local"], [provider |-> "openai"], [model |-> "m2"],
     [dimension |-> 16], [dimension |-> 8], [api_key |-> "k1"],
     [base_url |-> "url1"],
     [provider |-> "local", dimension |-> 16],
     [enabled |-> FALSE, model |-> "m2", dimension |-> 8],
     [enabled |-> TRUE, api_key |-> "k1"]}

\* model_copy(update=updates)
model_copy(c, updates) ==
    [f \in DOMAIN c |-> IF f \in DOMAIN updates THEN updates[f] ELSE c[f]]

\* the updates dict after dimension inference (inferred = 0: inference failed)
WithInferred(req, inferred) ==
    IF ("provider" \in DOMAIN req \/ "model" \in DOMAIN req)
       /\ "dimension" \notin DOMAIN req
    THEN [f \in DOMAIN req \cup {"dimension"} |->
            IF f = "dimension" THEN inferred ELSE req[f]]
    ELSE req

NeedsInference(req) ==
    ("provider" \in DOMAIN req \/ "model" \in DOMAIN req)
    /\ "dimension" \notin DOMAIN req
\* config_changed over provider, model and dimension only
config_changed_space_only(c, updates) ==
    \E f \in {"provider", "model", "dimension"} :
        f \in DOMAIN updates /\ c[f] # updates[f]

config_changed(c, updates) ==
    \E f \in RebuildFields : f \in DOMAIN updates /\ c[f] # updates[f]

\* PUT /embedding/config
update_embedding_config(req, inferred) ==
    IF NeedsInference(req) /\ inferred = 0
    THEN UNCHANGED vars
    ELSE LET updates == WithInferred(req, inferred)
             updated == model_copy(cfg, updates)
         IN IF updated.enabled /\ config_changed(cfg, updates)
            THEN /\ CanEnqueue({JobValidate})
                 /\ cfg.version < MaxVersion
                 /\ cfg' = [update_embedding_version(updated)
                              EXCEPT !.status = VALIDATING]
                 /\ queue' = Enqueue(queue, JobValidate)
                 /\ last' = "update:revalidate"
                 /\ UNCHANGED <<store, tasks, locking, milvus, pv, limiting, recreation, scoring, auxiliary, replaying, failures>>
            ELSE /\ cfg' = updated
                 /\ last' = "update:saved"
                 /\ UNCHANGED <<store, queue, tasks, locking, milvus, pv, limiting, recreation, scoring, auxiliary, replaying, failures>>

\* POST /embedding/rebuild
trigger_embedding_rebuild ==
    IF ~cfg.enabled \/ cfg.status = REBUILDING
    THEN UNCHANGED vars
    ELSE /\ CanEnqueue({JobValidate})
         /\ cfg.version < MaxVersion
         /\ cfg' = [update_embedding_version(cfg) EXCEPT !.status = VALIDATING]
         /\ queue' = Enqueue(queue, JobValidate)
         /\ last' = "trigger:ok"
         /\ UNCHANGED <<store, tasks, locking, milvus, pv, limiting, recreation, scoring, auxiliary, replaying, failures>>

\* POST /embedding/cancel-rebuild
cancel_embedding_rebuild ==
    IF cfg.status # REBUILDING
    THEN UNCHANGED vars
    ELSE /\ cfg' = [cfg EXCEPT !.status = IDLE,
                               !.rebuild_id = Null,
                               !.rebuild_started_at = Null]
         /\ last' = "cancel:ok"
         /\ UNCHANGED <<store, queue, tasks, locking, milvus, pv, limiting, recreation, scoring, auxiliary, replaying, failures>>

\* AdminService.get_embedding_progress: the entry rows counted by status
CountStatus(st) == Cardinality({e \in DOMAIN entries : entries[e] = st})

get_embedding_progress ==
    [total |-> Cardinality(DOMAIN entries),
     pending |-> CountStatus("pending"),
     processing |-> CountStatus("processing"),
     done |-> CountStatus("done"),
     failed |-> CountStatus("failed")]
\* the auto-complete test without the total > 0 conjunct
AllProcessed_any_total(progress) ==
    progress.done + progress.failed >= progress.total

\* the auto-complete test of the two status endpoints
AllProcessed(progress) ==
    progress.total > 0 /\ progress.done + progress.failed >= progress.total

\* GET /embedding/status
get_embedding_status ==
    IF cfg.status # REBUILDING
    THEN UNCHANGED vars
    ELSE /\ IF AllProcessed(get_embedding_progress)
            THEN /\ cfg' = complete_rebuild(cfg)
                 /\ failures' = 0
                 /\ last' = "status:completed"
            ELSE /\ last' = "status:rebuilding"
                 /\ UNCHANGED <<cfg, failures>>
         /\ UNCHANGED <<store, queue, tasks, locking, milvus, pv, limiting, recreation, scoring, auxiliary, replaying>>

\* GET /vectorization-status
get_vectorization_status ==
    IF cfg.status # REBUILDING
    THEN UNCHANGED vars
    ELSE /\ IF Cardinality(DOMAIN entries) > 0
               /\ CountStatus("done") + CountStatus("failed")
                     >= Cardinality(DOMAIN entries)
            THEN /\ cfg' = complete_rebuild(cfg)
                 /\ failures' = 0
                 /\ last' = "vstatus:completed"
            ELSE /\ last' = "vstatus:rebuilding"
                 /\ UNCHANGED <<cfg, failures>>
         /\ UNCHANGED <<store, queue, tasks, locking, milvus, pv, limiting, recreation, scoring, auxiliary, replaying>>

\* ---------------------------------------------------------- feed fetcher
\* the check of the embedding tasks and of the feed fetcher
is_enabled(c) == c.enabled /\ c.status \in {IDLE, REBUILDING}

\* fetch_feed_task: a new entry row, and its embedding job when enabled
fetch_feed_task(e, hasMilvus) ==
    /\ e \notin DOMAIN entries
    /\ entries' = [x \in DOMAIN entries \cup {e} |->
                     IF x = e THEN "pending" ELSE entries[x]]
    /\ embedding_error' = [x \in DOMAIN entries \cup {e} |->
                     IF x = e THEN Null ELSE embedding_error[x]]
    /\ IF hasMilvus /\ is_enabled(cfg)
       THEN /\ CanEnqueue({JobGenerate(e)})
            /\ queue' = Enqueue(queue, JobGenerate(e))
       ELSE queue' = queue
    /\ last' = "fetch"
    /\ UNCHANGED <<cfg, vectors, liked, prefs, stats, tasks, locking, milvus, pv, limiting, recreation, scoring, auxiliary, replaying, failures>>

\* --------------------------------------------------------- reactions API
\* PreferenceService.queue_rebuild (POST /preference/rebuild)
queue_rebuild(u) ==
    /\ CanEnqueue({JobRebuildPref(u)})
    /\ queue' = Enqueue(queue, JobRebuildPref(u))
    /\ last' = "queue_rebuild"
    /\ UNCHANGED <<cfg, store, tasks, failures, locking, milvus, pv, limiting, recreation, scoring, auxiliary, replaying>>

\* the sequence without the entry
Without(seq, e) == SelectSeq(seq, LAMBDA x : x # e)

\* POST /entries/{id}/like and /dislike: the reaction is stored and a
\* preference job is enqueued
react_entry(u, e, s) ==
    /\ e \in DOMAIN entries
    /\ CanEnqueue({JobUpdatePref(u, e, s)})
    /\ liked' = [liked EXCEPT ![u][e] = s]
    /\ history' = [history EXCEPT ![u] = Append(Without(@, e), e)]
    /\ queue' = Enqueue(queue, JobUpdatePref(u, e, s))
    /\ last' = "react"
    /\ UNCHANGED <<cfg, entries, embedding_error, vectors, prefs, stats, tasks, locking, milvus, pv, limiting, recreation, scoring, auxiliary, replayed, failures>>

\* ------------------------------------------------------------ worker jobs
Dequeue(q, j) == [q EXCEPT ![j] = @ - 1]
\* validate_and_rebuild_embeddings that ignores the vector-store test
validate_provider_only(hasMilvus, providerOk, milvusOk) ==
    /\ queue[JobValidate] > 0
    /\ UNCHANGED <<store, tasks, locking, milvus, pv, limiting, recreation, scoring, auxiliary, replaying>>
    /\ IF ~cfg.enabled
       THEN /\ queue' = Dequeue(queue, JobValidate)
            /\ last' = "validate:disabled"
            /\ UNCHANGED <<cfg, failures>>
       ELSE IF ~providerOk
       THEN /\ cfg.error_count < MaxErrorCount
            /\ failures < MaxErrorCount
            /\ cfg' = set_embedding_status(cfg, ERROR, "provider validation failed")
            /\ failures' = failures + 1
            /\ queue' = Dequeue(queue, JobValidate)
            /\ last' = "validate:failed"
       ELSE /\ CanEnqueue({JobRebuild})
            /\ queue' = Enqueue(Dequeue(queue, JobValidate), JobRebuild)
            /\ last' = "validate:passed"
            /\ UNCHANGED <<cfg, failures>>

\* validate_and_rebuild_embeddings
validate_and_rebuild_embeddings(hasMilvus, providerOk, milvusOk) ==
    /\ queue[JobValidate] > 0
    /\ UNCHANGED <<store, tasks, locking, milvus, pv, limiting, recreation, scoring, auxiliary, replaying>>
    /\ IF ~cfg.enabled
       THEN /\ queue' = Dequeue(queue, JobValidate)
            /\ last' = "validate:disabled"
            /\ UNCHANGED <<cfg, failures>>
       ELSE IF ~providerOk \/ ~hasMilvus \/ ~milvusOk
       THEN /\ cfg.error_count < MaxErrorCount
            /\ failures < MaxErrorCount
            /\ cfg' = set_embedding_status(cfg, ERROR,
                        IF ~providerOk THEN "provider validation failed"
                        ELSE IF hasMilvus THEN "milvus validation failed"
                        ELSE "milvus client not available")
            /\ failures' = failures + 1
            /\ queue' = Dequeue(queue, JobValidate)
            /\ last' = "validate:failed"
       ELSE /\ CanEnqueue({JobRebuild})
            /\ queue' = Enqueue(Dequeue(queue, JobValidate), JobRebuild)
            /\ last' = "validate:passed"
            /\ UNCHANGED <<cfg, failures>>
\* rebuild_embeddings that re-queues only the entries that are not done
rebuild_embeddings_not_done(hasMilvus) ==
    /\ queue[JobRebuild] > 0
    /\ UNCHANGED <<vectors, liked, prefs, stats, tasks, locking, milvus, pv, limiting, recreation, scoring, auxiliary, replaying, failures>>
    /\ IF ~hasMilvus
       THEN /\ queue' = Dequeue(queue, JobRebuild)
            /\ last' = "rebuild:nomilvus"
            /\ UNCHANGED <<cfg, entries, embedding_error>>
       ELSE /\ CanEnqueue({JobGenerate(e) : e \in DOMAIN entries}
                            \cup {JobRebuildPref(u) : u \in stats})
            /\ cfg' = [cfg EXCEPT !.status = REBUILDING]
            /\ entries' = [e \in DOMAIN entries |-> "pending"]
            /\ embedding_error' = [e \in DOMAIN entries |-> Null]
            /\ queue' = [j \in Jobs |->
                  IF j = JobRebuild THEN queue[j] - 1
                  ELSE IF \E e \in DOMAIN entries :
                            j = JobGenerate(e) /\ entries[e] # "done"
                       THEN queue[j] + 1
                  ELSE IF \E u \in stats : j = JobRebuildPref(u)
                       THEN queue[j] + 1
                  ELSE queue[j]]
            /\ last' = "rebuild:success"

\* rebuild_embeddings. recreate_collections is a coroutine function and is
\* called without await: the coroutine object is dropped and never runs, so
\* the collections and their vectors are left as they are
rebuild_embeddings(hasMilvus) ==
    /\ queue[JobRebuild] > 0
    /\ UNCHANGED <<vectors, liked, prefs, stats, tasks, locking, milvus, pv, limiting, recreation, scoring, auxiliary, replaying, failures>>
    /\ IF ~hasMilvus
       THEN /\ queue' = Dequeue(queue, JobRebuild)
            /\ last' = "rebuild:nomilvus"
            /\ UNCHANGED <<cfg, entries, embedding_error>>
       ELSE /\ CanEnqueue({JobGenerate(e) : e \in DOMAIN entries}
                            \cup {JobRebuildPref(u) : u \in stats})
            /\ cfg' = [cfg EXCEPT !.status = REBUILDING]
            /\ entries' = [e \in DOMAIN entries |-> "pending"]
            /\ embedding_error' = [e \in DOMAIN entries |-> Null]
            /\ queue' = [j \in Jobs |->
                  IF j = JobRebuild THEN queue[j] - 1
                  ELSE IF \E e \in DOMAIN entries : j = JobGenerate(e)
                       THEN queue[j] + 1
                  ELSE IF \E u \in stats : j = JobRebuildPref(u)
                       THEN queue[j] + 1
                  ELSE queue[j]]
            /\ last' = "rebuild:success"

\* PreferenceService.SIGNAL_WEIGHTS, in tenths
SIGNAL_WEIGHTS == [like |-> 10, dislike |-> -10, bookmark |-> 7]

abs(w) == IF w < 0 THEN -w ELSE w

vector_type(w) == IF w > 0 THEN "positive" ELSE "negative"

\* _update_preference_vector_locked: the sample count written for a vector
\* that had the count current (0: no vector yet)
new_count(current, w) == current + abs(w)

\* unit vectors in one dimension
ArticleEmbeddings == {-1, 1}

\* the accumulated vector stored at its own length (its numerator)
normalize_skipped(pre) == pre[1]

\* new_embedding / norm if norm > 1e-8, else new_embedding
normalize(pre) ==
    IF pre[1] = 0 THEN 0 ELSE IF pre[1] > 0 THEN 1 ELSE -1

\* the moving average with the signed weight in place of its absolute value
update_preference_vector_signed(current, article_embedding, weight) ==
    LET pre == IF current.count = 0
               THEN <<article_embedding * weight, 10>>
               ELSE <<current.embedding * current.count + article_embedding * weight,
                      current.count + weight>>
    IN [count |-> current.count + weight, embedding |-> normalize(pre), pre |-> pre]

\* _update_preference_vector_locked: the vector stored for the current one
update_preference_vector_locked(current, article_embedding, weight) ==
    LET abs_weight == abs(weight)
        total_weight == current.count + abs_weight
        pre == IF current.count = 0
               THEN <<article_embedding * abs_weight, 10>>
               ELSE <<current.embedding * current.count
                         + article_embedding * abs_weight, total_weight>>
    IN [count |-> new_count(current.count, weight),
        embedding |-> normalize(pre),
        pre |-> pre]

\* one signal of weight SIGNAL_WEIGHTS[s] for an article is applied to the
\* vector of its polarity, no other update running
apply_signal(article_embedding, s) ==
    LET w == SIGNAL_WEIGHTS[s]
        p == vector_type(w)
    IN /\ pv[p].count + abs(w) <= MaxSamples
       /\ pv' = [pv EXCEPT ![p] = update_preference_vector_locked(@, article_embedding, w)]
       /\ last' = "apply:" \o s
       /\ UNCHANGED <<cfg, store, queue, tasks, failures, locking, milvus, replaying, limiting, recreation, scoring, auxiliary>>

\* handle_preference_signal that does not look for the article's vector
handle_preference_signal_any_entry(P, u, e, s) ==
    LET w == SIGNAL_WEIGHTS[s]
    IN [P EXCEPT ![u][vector_type(w)] = new_count(@, w)]

\* handle_preference_signal, run without interruption
handle_preference_signal(P, u, e, s) ==
    IF e \notin vectors \/ e \notin DOMAIN entries
    THEN P
    ELSE LET w == SIGNAL_WEIGHTS[s]
         IN [P EXCEPT ![u][vector_type(w)] = new_count(@, w)]

\* the orders in which a query without ORDER BY can return the rows
Orders(rows) ==
    {q \in [1..Cardinality(rows) -> rows] :
        \A i, j \in 1..Cardinality(rows) : q[i] = q[j] => i = j}

\* the rows of the user's feedback query: is_liked is not null
Feedback(u) == {e \in DOMAIN entries : liked[u][e] # "none"}

\* the signals rebuild_from_history replays, in the order of the query result
RECURSIVE replay(_, _, _)
replay(P, u, es) ==
    IF es = <<>>
    THEN P
    ELSE replay(handle_preference_signal(P, u, Head(es), liked[u][Head(es)]),
                u, Tail(es))

\* rebuild_from_history, the feedback query returning its rows in this order
rebuild_from_history(P, u, order) ==
    replay([P EXCEPT ![u] = [p \in Polarities |-> 0]], u, order)

\* the preference check that lets a job run while the status is error
pref_check_error_proceeds(c) ==
    IF ~c.enabled \/ c.status = DISABLED THEN "disabled"
    ELSE IF c.status = VALIDATING THEN "retry"
    ELSE "proceed"

\* Retry(defer=...) of _check_vectorization_enabled, in seconds
retry_defer(c) ==
    IF c.status = VALIDATING THEN 30
    ELSE IF c.status = ERROR THEN 120
    ELSE 60

\* _check_vectorization_enabled of the preference worker
pref_check(c) ==
    IF ~c.enabled \/ c.status = DISABLED THEN "disabled"
    ELSE IF c.status \in {VALIDATING, ERROR} THEN "retry"
    ELSE "proceed"

\* update_user_preference; ok = FALSE: ensure_collections raises, the job
\* fails and is not run again
update_user_preference(u, e, s, hasMilvus, ok) ==
    LET j == JobUpdatePref(u, e, s)
    IN /\ queue[j] > 0
       /\ UNCHANGED <<cfg, entries, embedding_error, vectors, liked, tasks, locking, milvus, pv, limiting, recreation, scoring, auxiliary, replaying, failures>>
       /\ IF ~hasMilvus \/ pref_check(cfg) = "disabled"
          THEN /\ queue' = Dequeue(queue, j)
               /\ last' = "uup:skipped"
               /\ UNCHANGED <<prefs, stats>>
          ELSE IF pref_check(cfg) = "retry"
          THEN /\ last' = "uup:retry:" \o ToString(retry_defer(cfg))
               /\ UNCHANGED <<queue, prefs, stats>>
          ELSE IF ~ok
          THEN /\ queue' = Dequeue(queue, j)
               /\ last' = "uup:raised"
               /\ UNCHANGED <<prefs, stats>>
          ELSE /\ prefs[u][vector_type(SIGNAL_WEIGHTS[s])] + abs(SIGNAL_WEIGHTS[s])
                     <= MaxSamples
               /\ prefs' = handle_preference_signal(prefs, u, e, s)
               /\ stats' = IF e \in vectors /\ e \in DOMAIN entries
                           THEN stats \cup {u} ELSE stats
               /\ queue' = Dequeue(queue, j)
               /\ last' = "uup:done"

\* rebuild_user_preference; ok = FALSE: ensure_collections raises, the job
\* fails and is not run again
rebuild_user_preference(u, hasMilvus, ok) ==
    LET j == JobRebuildPref(u)
    IN /\ queue[j] > 0
       /\ UNCHANGED <<cfg, entries, embedding_error, vectors, liked, tasks, locking, milvus, pv, limiting, recreation, scoring, auxiliary, history, failures>>
       /\ IF ~hasMilvus \/ pref_check(cfg) = "disabled"
          THEN /\ queue' = Dequeue(queue, j)
               /\ last' = "rup:skipped"
               /\ UNCHANGED <<prefs, stats, replayed>>
          ELSE IF pref_check(cfg) = "retry"
          THEN /\ last' = "rup:retry:" \o ToString(retry_defer(cfg))
               /\ UNCHANGED <<queue, prefs, stats, replayed>>
          ELSE IF ~ok
          THEN /\ queue' = Dequeue(queue, j)
               /\ last' = "rup:raised"
               /\ UNCHANGED <<prefs, stats, replayed>>
          ELSE /\ \E order \in Orders(Feedback(u)) :
                     /\ prefs' = rebuild_from_history(prefs, u, order)
                     /\ replayed' = [replayed EXCEPT ![u] = order]
               /\ stats' = IF \E e \in DOMAIN entries :
                                 liked[u][e] # "none" /\ e \in vectors
                           THEN stats \cup {u} ELSE stats \ {u}
               /\ queue' = Dequeue(queue, j)
               /\ last' = "rup:done"

\* ----------------------------------------------- the embedding tasks
\* generate_entry_embedding, batch_generate_embeddings, retry_failed_embeddings
EmbeddingJobs == {JobGenerate(e) : e \in EntryIds} \cup {JobBatch, JobRetry}

FreeSlot(s) == tasks[s].pc = "idle" /\ \A t \in Slots : t < s => tasks[t].pc # "idle"

\* the entries a task sets out to embed: its own entry, or the rows
\* batch_generate / retry_failed select (limit above the number of rows)
Selected(j) ==
    IF j = JobBatch THEN {e \in DOMAIN entries : entries[e] = "pending"}
    ELSE IF j = JobRetry THEN {e \in DOMAIN entries : entries[e] = "failed"}
    ELSE {j.entry}

\* the task up to its service call: the client and enabled checks and
\* ensure_collections; an exception enters _handle_embedding_error, which
\* reads the failure counter
task_start(s, j, hasMilvus, ensureOk) ==
    /\ queue[j] > 0
    /\ FreeSlot(s)
    /\ queue' = Dequeue(queue, j)
    /\ UNCHANGED <<cfg, store, locking, milvus, pv, limiting, recreation, scoring, auxiliary, replaying>>
    /\ IF ~hasMilvus \/ ~is_enabled(cfg)
       THEN /\ last' = "task:skipped"
            /\ UNCHANGED <<tasks, failures>>
       ELSE IF ~ensureOk
       THEN /\ failures < MaxErrorCount
            /\ failures' = failures + 1
            /\ tasks' = [tasks EXCEPT ![s] =
                  [IdleTask EXCEPT !.pc = "error", !.job = j.name,
                                   !.n = cfg.error_count + 1,
                                   !.k = failures + 1]]
            /\ last' = "task:raised"
       ELSE /\ tasks' = [tasks EXCEPT ![s] =
                  [IdleTask EXCEPT !.pc = "loop", !.job = j.name,
                                   !.todo = Selected(j)]]
            /\ last' = "task:started"
            /\ UNCHANGED failures

\* generate_embedding without its "already processed" return: a done entry
\* is marked processing and embedded again
task_loop_no_skip(s, e) ==
    /\ tasks[s].pc = "loop"
    /\ UNCHANGED <<cfg, queue, vectors, liked, prefs, stats, failures, locking, milvus, pv, limiting, recreation, scoring, auxiliary, replaying>>
    /\ IF tasks[s].todo = {}
       THEN /\ tasks' = [tasks EXCEPT ![s] =
                  IF tasks[s].hit
                  THEN [IdleTask EXCEPT !.pc = "reset", !.job = tasks[s].job,
                                        !.called = tasks[s].called]
                  ELSE IdleTask]
            /\ last' = "task:returned"
            /\ UNCHANGED <<entries, embedding_error>>
       ELSE /\ e \in tasks[s].todo
            /\ IF e \notin DOMAIN entries
               THEN /\ tasks' = [tasks EXCEPT ![s].todo = @ \ {e}]
                    /\ last' = "task:noentry"
                    /\ UNCHANGED <<entries, embedding_error>>
               ELSE /\ entries' = [entries EXCEPT ![e] = "processing"]
                    /\ embedding_error' = [embedding_error EXCEPT ![e] = Null]
                    /\ tasks' = [tasks EXCEPT ![s].todo = @ \ {e},
                                             ![s].entry = e,
                                             ![s].pc = "embed"]
                    /\ last' = "task:processing"

\* EmbeddingService.generate_embedding up to the "processing" mark
task_loop(s, e) ==
    /\ tasks[s].pc = "loop"
    /\ UNCHANGED <<cfg, queue, vectors, liked, prefs, stats, failures, locking, milvus, pv, limiting, recreation, scoring, auxiliary, replaying>>
    /\ IF tasks[s].todo = {}
       THEN /\ tasks' = [tasks EXCEPT ![s] =
                  IF tasks[s].hit
                  THEN [IdleTask EXCEPT !.pc = "reset", !.job = tasks[s].job,
                                        !.called = tasks[s].called]
                  ELSE IdleTask]
            /\ last' = "task:returned"
            /\ UNCHANGED <<entries, embedding_error>>
       ELSE /\ e \in tasks[s].todo
            /\ IF e \notin DOMAIN entries
               THEN /\ tasks' = [tasks EXCEPT ![s].todo = @ \ {e}]
                    /\ last' = "task:noentry"
                    /\ UNCHANGED <<entries, embedding_error>>
               ELSE IF entries[e] = "done"
               THEN /\ tasks' = [tasks EXCEPT ![s].todo = @ \ {e}, ![s].hit = TRUE]
                    /\ last' = "task:already"
                    /\ UNCHANGED <<entries, embedding_error>>
               ELSE /\ entries' = [entries EXCEPT ![e] = "processing"]
                    /\ embedding_error' = [embedding_error EXCEPT ![e] = Null]
                    /\ tasks' = [tasks EXCEPT ![s].todo = @ \ {e},
                                             ![s].entry = e,
                                             ![s].pc = "embed"]
                    /\ last' = "task:processing"

\* str(e) of the exception, or "No text content to embed"
StrError == "message"

\* generate_embedding without its except clause: the exception leaves the row
\* as the "processing" mark wrote it
task_embed_unhandled(s, ok) ==
    /\ tasks[s].pc = "embed"
    /\ UNCHANGED <<cfg, queue, liked, prefs, stats, failures, locking, milvus, pv, limiting, recreation, scoring, auxiliary, replaying>>
    /\ IF ok
       THEN /\ vectors' = vectors \cup {tasks[s].entry}
            /\ entries' = [entries EXCEPT ![tasks[s].entry] = "done"]
            /\ embedding_error' = [embedding_error EXCEPT ![tasks[s].entry] = Null]
            /\ tasks' = [tasks EXCEPT ![s].pc = "loop", ![s].entry = Null,
                                     ![s].hit = TRUE, ![s].called = TRUE]
            /\ last' = "task:done"
       ELSE /\ tasks' = [tasks EXCEPT ![s].pc = "loop", ![s].entry = Null,
                                     ![s].called = TRUE]
            /\ last' = "task:failed"
            /\ UNCHANGED <<entries, embedding_error, vectors>>

\* the provider call and the vector insert: done, or failed on any exception
task_embed(s, ok) ==
    /\ tasks[s].pc = "embed"
    /\ UNCHANGED <<cfg, queue, liked, prefs, stats, failures, locking, milvus, pv, limiting, recreation, scoring, auxiliary, replaying>>
    /\ IF ok
       THEN /\ vectors' = vectors \cup {tasks[s].entry}
            /\ entries' = [entries EXCEPT ![tasks[s].entry] = "done"]
            /\ embedding_error' = [embedding_error EXCEPT ![tasks[s].entry] = Null]
            /\ tasks' = [tasks EXCEPT ![s].pc = "loop", ![s].entry = Null,
                                     ![s].hit = TRUE, ![s].called = TRUE]
            /\ last' = "task:done"
       ELSE /\ entries' = [entries EXCEPT ![tasks[s].entry] = "failed"]
            /\ embedding_error' = [embedding_error EXCEPT ![tasks[s].entry] = StrError]
            /\ tasks' = [tasks EXCEPT ![s].pc = "loop", ![s].entry = Null,
                                     ![s].called = TRUE]
            /\ last' = "task:failed"
            /\ UNCHANGED vectors

\* _reset_error_count
task_reset(s) ==
    /\ tasks[s].pc = "reset"
    /\ cfg' = IF cfg.error_count > 0 THEN [cfg EXCEPT !.error_count = 0] ELSE cfg
    /\ failures' = 0
    /\ tasks' = [tasks EXCEPT ![s] = IdleTask]
    /\ last' = "task:success"
    /\ UNCHANGED <<store, queue, locking, milvus, pv, limiting, recreation, scoring, auxiliary, replaying>>

\* _handle_embedding_error after its read: trip the breaker or store the count
task_error(s) ==
    /\ tasks[s].pc = "error"
    /\ IF tasks[s].n >= CONSECUTIVE_FAILURES_THRESHOLD
       THEN /\ cfg.error_count < MaxErrorCount
            /\ cfg' = set_embedding_status(cfg, ERROR, "circuit breaker")
            /\ last' = "task:tripped"
       ELSE /\ cfg' = [cfg EXCEPT !.error_count = tasks[s].n]
            /\ last' = "task:counted"
    /\ tasks' = [tasks EXCEPT ![s] = IdleTask]
    /\ UNCHANGED <<store, queue, failures, locking, milvus, pv, limiting, recreation, scoring, auxiliary, replaying>>

\* the task queue delivers a batch or a retry job
deliver(j) ==
    /\ j \in {JobBatch, JobRetry}
    /\ CanEnqueue({j})
    /\ queue' = Enqueue(queue, j)
    /\ last' = "deliver"
    /\ UNCHANGED <<cfg, store, tasks, locking, milvus, pv, limiting, recreation, scoring, auxiliary, replaying, failures>>

\* ------------------------------------ PreferenceService._update_preference_vector
\* the vector a call updates
KeyUser(c) == calls[c].user

KeyType(c) == vector_type(SIGNAL_WEIGHTS[calls[c].signal])

Running(c) == calls[c].pc \in {"acquire", "read", "write", "release", "unwind"}

\* _update_preference_vector is entered: the lock is requested when the
\* service has a Redis client, otherwise the update runs unlocked
call_start(c, u, s, hasRedis) ==
    LET w == SIGNAL_WEIGHTS[s]
        p == vector_type(w)
    IN /\ ~Running(c)
       /\ ledger[u][p].sum + abs(w) <= MaxWeight
       /\ calls' = [calls EXCEPT ![c] =
             [IdleCall EXCEPT !.pc = IF hasRedis THEN "acquire" ELSE "read",
                              !.user = u, !.signal = s, !.redis = hasRedis]]
       /\ ledger' = [ledger EXCEPT ![u][p] =
             [sum |-> @.sum + abs(w), clean |-> @.clean /\ hasRedis]]
       /\ last' = "call:start"
       /\ UNCHANGED <<cfg, store, queue, tasks, failures, milvus, pv, limiting, recreation, scoring, auxiliary, replaying, lock>>

\* lock.acquire() that takes the lock whether or not it is held
call_acquire_unchecked(c, timedOut) ==
    /\ calls[c].pc = "acquire"
    /\ lock' = [lock EXCEPT ![KeyUser(c)][KeyType(c)] = c]
    /\ calls' = [calls EXCEPT ![c].pc = "read"]
    /\ last' = "call:acquired"
    /\ UNCHANGED <<cfg, store, queue, tasks, failures, milvus, pv, limiting, recreation, scoring, auxiliary, replaying, ledger>>

\* lock.acquire() whose False result is not tested: the update runs unlocked
call_acquire_timeout_ignored(c, timedOut) ==
    /\ calls[c].pc = "acquire"
    /\ UNCHANGED <<cfg, store, queue, tasks, failures, milvus, pv, limiting, recreation, scoring, auxiliary, replaying>>
    /\ IF lock[KeyUser(c)][KeyType(c)] = Null
       THEN /\ lock' = [lock EXCEPT ![KeyUser(c)][KeyType(c)] = c]
            /\ calls' = [calls EXCEPT ![c].pc = "read"]
            /\ last' = "call:acquired"
            /\ UNCHANGED ledger
       ELSE IF timedOut
       THEN /\ calls' = [calls EXCEPT ![c].pc = "read"]
            /\ ledger' = [ledger EXCEPT ![KeyUser(c)][KeyType(c)].clean = FALSE]
            /\ last' = "call:timeout"
            /\ UNCHANGED lock
       ELSE /\ calls' = [calls EXCEPT ![c].waited = TRUE]
            /\ last' = "call:waiting"
            /\ UNCHANGED <<lock, ledger>>

\* lock.acquire() under one lock key per user, whatever the vector type
call_acquire_user_key(c, timedOut) ==
    /\ calls[c].pc = "acquire"
    /\ UNCHANGED <<cfg, store, queue, tasks, failures, milvus, pv, limiting, recreation, scoring, auxiliary, replaying>>
    /\ IF \A p \in Polarities : lock[KeyUser(c)][p] = Null
       THEN /\ lock' = [lock EXCEPT ![KeyUser(c)][KeyType(c)] = c]
            /\ calls' = [calls EXCEPT ![c].pc = "read"]
            /\ last' = "call:acquired"
            /\ UNCHANGED ledger
       ELSE IF timedOut
       THEN /\ calls' = [calls EXCEPT ![c].pc = "failed"]
            /\ ledger' = [ledger EXCEPT ![KeyUser(c)][KeyType(c)].clean = FALSE]
            /\ last' = "call:timeout"
            /\ UNCHANGED lock
       ELSE /\ calls' = [calls EXCEPT ![c].waited = TRUE]
            /\ last' = "call:waiting"
            /\ UNCHANGED <<lock, ledger>>

\* lock.acquire(): take the free lock; while it is held, poll until
\* blocking_timeout has passed and then raise TimeoutError (the release in the
\* finally block fails on the lock that is not owned, and is suppressed)
call_acquire(c, timedOut) ==
    /\ calls[c].pc = "acquire"
    /\ UNCHANGED <<cfg, store, queue, tasks, failures, milvus, pv, limiting, recreation, scoring, auxiliary, replaying>>
    /\ IF lock[KeyUser(c)][KeyType(c)] = Null
       THEN /\ lock' = [lock EXCEPT ![KeyUser(c)][KeyType(c)] = c]
            /\ calls' = [calls EXCEPT ![c].pc = "read"]
            /\ last' = "call:acquired"
            /\ UNCHANGED ledger
       ELSE IF timedOut
       THEN /\ calls' = [calls EXCEPT ![c].pc = "failed"]
            /\ ledger' = [ledger EXCEPT ![KeyUser(c)][KeyType(c)].clean = FALSE]
            /\ last' = "call:timeout"
            /\ UNCHANGED lock
       ELSE /\ calls' = [calls EXCEPT ![c].waited = TRUE]
            /\ last' = "call:waiting"
            /\ UNCHANGED <<lock, ledger>>

\* _update_preference_vector_locked: get_user_preferences
call_read(c) ==
    /\ calls[c].pc = "read"
    /\ calls' = [calls EXCEPT ![c].pc = "write",
                              ![c].read = prefs[KeyUser(c)][KeyType(c)]]
    /\ last' = "call:read"
    /\ UNCHANGED <<cfg, store, queue, tasks, failures, milvus, pv, limiting, recreation, scoring, auxiliary, replaying, lock, ledger>>

\* _update_preference_vector_locked: upsert_user_preference
call_write(c) ==
    /\ calls[c].pc = "write"
    /\ prefs' = [prefs EXCEPT ![KeyUser(c)][KeyType(c)] =
                    new_count(calls[c].read, SIGNAL_WEIGHTS[calls[c].signal])]
    /\ calls' = [calls EXCEPT ![c].pc = IF calls[c].redis THEN "release" ELSE "done"]
    /\ last' = "call:stored"
    /\ UNCHANGED <<cfg, entries, embedding_error, vectors, liked, stats, queue, tasks, failures, milvus, pv, limiting, recreation, scoring, auxiliary, replaying,
                   lock, ledger>>

\* an exception of the read-modify-write that leaves without the finally block
call_raise_no_finally(c) ==
    /\ calls[c].pc \in {"read", "write"}
    /\ calls' = [calls EXCEPT ![c].pc = "failed"]
    /\ ledger' = [ledger EXCEPT ![KeyUser(c)][KeyType(c)].clean = FALSE]
    /\ last' = "call:raised"
    /\ UNCHANGED <<cfg, store, queue, tasks, failures, milvus, pv, limiting, recreation, scoring, auxiliary, replaying, lock>>

\* get_user_preferences or upsert_user_preference raises inside
\* _update_preference_vector_locked: nothing is stored, and the exception
\* leaves through the finally block when the lock was requested
call_raise(c) ==
    /\ calls[c].pc \in {"read", "write"}
    /\ calls' = [calls EXCEPT ![c].pc = IF calls[c].redis THEN "unwind" ELSE "failed"]
    /\ ledger' = [ledger EXCEPT ![KeyUser(c)][KeyType(c)].clean = FALSE]
    /\ last' = "call:raised"
    /\ UNCHANGED <<cfg, store, queue, tasks, failures, milvus, pv, limiting, recreation, scoring, auxiliary, replaying, lock>>

\* lock.release() in the finally block, after the update or on its exception:
\* frees the lock if the caller still owns it; the error for a lock that
\* expired is suppressed
call_release(c) ==
    /\ calls[c].pc \in {"release", "unwind"}
    /\ lock' = IF lock[KeyUser(c)][KeyType(c)] = c
               THEN [lock EXCEPT ![KeyUser(c)][KeyType(c)] = Null]
               ELSE lock
    /\ calls' = [calls EXCEPT ![c].pc = IF calls[c].pc = "unwind" THEN "failed" ELSE "done"]
    /\ last' = "call:released"
    /\ UNCHANGED <<cfg, store, queue, tasks, failures, milvus, pv, limiting, recreation, scoring, auxiliary, replaying, ledger>>

\* the lock's timeout passes before its holder released it
lock_expire(u, p) ==
    /\ lock[u][p] # Null
    /\ lock' = [lock EXCEPT ![u][p] = Null]
    /\ ledger' = [ledger EXCEPT ![u][p].clean =
                     @ /\ calls[lock[u][p]].pc = "release"]
    /\ last' = "lock:expired"
    /\ UNCHANGED <<cfg, store, queue, tasks, failures, milvus, pv, limiting, recreation, scoring, auxiliary, replaying, calls>>

\* -------------------------------------------------------- MilvusClient
\* a name as Python sees it: its characters, grouped into runs without
\* whitespace and single whitespace characters
Chars(name) ==
    IF name = "my model" THEN <<"my", " ", "model">> ELSE <<name>>

\* str(dimension)
DimString(d) == IF d = 8 THEN "8" ELSE IF d = 16 THEN "16" ELSE "n"

\* _build_model_signature: f"{provider}:{model}:{dimension}"
build_model_signature(provider, model, dimension) ==
    Chars(provider) \o <<":">> \o Chars(model) \o <<":">> \o <<DimString(dimension)>>

\* the description a collection is created with
Description(text, provider, model, dimension) ==
    <<text, " ", "|", " ", "model=">> \o build_model_signature(provider, model, dimension)

\* str.split()[0]: the characters up to the first whitespace, leading
\* whitespace skipped; <<>> when there is no token (IndexError)
RECURSIVE first_token(_)
first_token(str) ==
    IF str = <<>> THEN <<>>
    ELSE IF Head(str) = " " THEN first_token(Tail(str))
    ELSE LET stop == {i \in 1..Len(str) : str[i] = " "}
         IN IF stop = {} THEN str
            ELSE SubSeq(str, 1, (CHOOSE i \in stop : \A j \in stop : i <= j) - 1)

\* _extract_model_signature: the first token after the first "model=", or
\* Null when there is none
extract_model_signature(description) ==
    LET marks == {i \in 1..Len(description) : description[i] = "model="}
    IN IF marks = {} THEN Null
       ELSE LET m == CHOOSE i \in marks : \A j \in marks : i <= j
                token == first_token(SubSeq(description, m + 1, Len(description)))
            IN IF token = <<>> THEN Null ELSE token

Exists(c) == collections[c].description # Absent

\* a collection created under its name: a new incarnation with the description
Created(c, provider, model, dimension) ==
    [description |-> Description(c, provider, model, dimension),
     gen |-> collections[c].gen + 1]

\* the collection was created for another configuration, as ensure_collections
\* sees it
Mismatch(c, provider, model, dimension) ==
    /\ Exists(c)
    /\ extract_model_signature(collections[c].description) # Null
    /\ extract_model_signature(collections[c].description)
          # build_model_signature(provider, model, dimension)

\* ensure_collections that never compares signatures
ensure_collections_any_signature(w, dimension, provider, model, ok) ==
    /\ UNCHANGED <<cfg, entries, embedding_error, liked, stats, queue, tasks, failures, locking,
                   pv, limiting, recreation, scoring, auxiliary, replaying, vectors, prefs>>
    /\ IF ~ok
       THEN /\ last' = "ensure:raised"
            /\ UNCHANGED milvus
       ELSE /\ \A c \in CollectionNames : Exists(c) \/ collections[c].gen < MaxGen
            /\ collections' = [c \in CollectionNames |->
                  IF Exists(c) THEN collections[c]
                  ELSE Created(c, provider, model, dimension)]
            /\ handles' = [handles EXCEPT ![w] =
                  [c \in CollectionNames |-> collections'[c].gen]]
            /\ last' = "ensure:ok"

\* what ensure_collections does to the store and to the handles of client w
ensured(w, dimension, provider, model, ok) ==
    IF ~ok
    THEN /\ last' = "ensure:raised"
         /\ UNCHANGED <<milvus, vectors, prefs>>
    ELSE IF \/ Mismatch("entries", provider, model, dimension)
            \/ Mismatch("prefs", provider, model, dimension)
    THEN \* recreate_collections: drop both, create both
         /\ \A c \in CollectionNames : collections[c].gen < MaxGen
         /\ collections' = [c \in CollectionNames |->
               Created(c, provider, model, dimension)]
         /\ handles' = [handles EXCEPT ![w] =
               [c \in CollectionNames |-> collections'[c].gen]]
         /\ vectors' = {}
         /\ prefs' = [u \in Users |-> [p \in Polarities |-> 0]]
         /\ last' = "ensure:recreated"
    ELSE /\ \A c \in CollectionNames : Exists(c) \/ collections[c].gen < MaxGen
         /\ collections' = [c \in CollectionNames |->
               IF Exists(c) THEN collections[c]
               ELSE Created(c, provider, model, dimension)]
         /\ handles' = [handles EXCEPT ![w] =
               [c \in CollectionNames |-> collections'[c].gen]]
         /\ last' = IF \A c \in CollectionNames : Exists(c)
                    THEN "ensure:kept" ELSE "ensure:created"
         /\ UNCHANGED <<vectors, prefs>>

\* ensure_collections(dimension, provider, model) of client w; ok = FALSE: the
\* connection or a store call raises
ensure_collections(w, dimension, provider, model, ok) ==
    /\ UNCHANGED <<cfg, entries, embedding_error, liked, stats, queue, tasks, failures, locking,
                   pv, limiting, recreation, scoring, auxiliary, replaying>>
    /\ ensured(w, dimension, provider, model, ok)

\* the cached Collection object of client w no longer names the live
\* collection: the store answers "collection not found" (code 100)
Stale(w, c) == ~Exists(c) \/ handles[w][c] # collections[c].gen

\* the errors a store call can meet besides a stale handle: none, an error of
\* another class on the first attempt, an error on the second attempt
Faults == {"none", "other", "again"}

\* _refresh_entries_collection / _refresh_prefs_collection
refresh(w, c) ==
    [handles EXCEPT ![w][c] = IF Exists(c) THEN collections[c].gen ELSE NoHandle]

\* the insert of insert_entry_embedding and upsert_user_preference with its
\* except clause: the result and the number of insert attempts
insert_with_retry(w, c, fault) ==
    IF handles[w][c] = NoHandle THEN [result |-> "uninitialized", attempts |-> 0]
    ELSE IF fault = "other" THEN [result |-> "error", attempts |-> 1]
    ELSE IF ~Stale(w, c) THEN [result |-> "ok", attempts |-> 1]
    ELSE IF ~Exists(c) THEN [result |-> "runtime-error", attempts |-> 1]
    ELSE IF fault = "again" THEN [result |-> "error", attempts |-> 2]
    ELSE [result |-> "ok", attempts |-> 2]

\* the one call of delete_entry_embedding and delete_user_preferences
delete_once(w, c, fault) ==
    IF handles[w][c] = NoHandle THEN [result |-> "uninitialized", attempts |-> 0]
    ELSE IF fault = "other" \/ Stale(w, c) THEN [result |-> "error", attempts |-> 1]
    ELSE [result |-> "ok", attempts |-> 1]

Outcome(op, r) == op \o ":" \o r.result \o ":" \o ToString(r.attempts)

\* MilvusClient.insert_entry_embedding of client w
insert_entry_embedding(w, e, fault) ==
    LET r == insert_with_retry(w, "entries", fault)
    IN /\ e \in DOMAIN entries
       /\ vectors' = IF r.result = "ok" THEN vectors \cup {e} ELSE vectors
       /\ handles' = IF r.attempts > 0 /\ fault # "other" /\ Stale(w, "entries")
                     THEN refresh(w, "entries") ELSE handles
       /\ last' = Outcome("insert_entry_embedding", r)
       /\ UNCHANGED <<cfg, entries, embedding_error, liked, prefs, stats, queue, tasks, failures,
                      locking, collections, pv, limiting, recreation, scoring, auxiliary, replaying>>

\* MilvusClient.upsert_user_preference of client w
upsert_user_preference(w, u, p, count, fault) ==
    LET r == insert_with_retry(w, "prefs", fault)
    IN /\ prefs' = IF r.result = "ok" THEN [prefs EXCEPT ![u][p] = count] ELSE prefs
       /\ handles' = IF r.attempts > 0 /\ fault # "other" /\ Stale(w, "prefs")
                     THEN refresh(w, "prefs") ELSE handles
       /\ last' = Outcome("upsert_user_preference", r)
       /\ UNCHANGED <<cfg, entries, embedding_error, vectors, liked, stats, queue, tasks, failures,
                      locking, collections, pv, limiting, recreation, scoring, auxiliary, replaying>>

\* MilvusClient.delete_entry_embedding of client w
delete_entry_embedding(w, e, fault) ==
    LET r == delete_once(w, "entries", fault)
    IN /\ vectors' = IF r.result = "ok" THEN vectors \ {e} ELSE vectors
       /\ last' = Outcome("delete_entry_embedding", r)
       /\ UNCHANGED <<cfg, entries, embedding_error, liked, prefs, stats, queue, tasks, failures,
                      locking, milvus, pv, limiting, recreation, scoring, auxiliary, replaying>>

\* MilvusClient.delete_user_preferences of client w
delete_user_preferences(w, u, fault) ==
    LET r == delete_once(w, "prefs", fault)
    IN /\ prefs' = IF r.result = "ok"
                   THEN [prefs EXCEPT ![u] = [p \in Polarities |-> 0]] ELSE prefs
       /\ last' = Outcome("delete_user_preferences", r)
       /\ UNCHANGED <<cfg, entries, embedding_error, vectors, liked, stats, queue, tasks, failures,
                      locking, milvus, pv, limiting, recreation, scoring, auxiliary, replaying>>

\* ----------------------------------------- MilvusClient.recreate_collections
\* range(30): the polls of one wait for a drop
MaxPolls == 30

\* the stage after the drop of collection c
AfterDrop(c) == IF c = "entries" THEN "prefs" ELSE "create"

\* recreate_collections(dimension, provider, model) of client w is called
recreate_collections(w, dimension, provider, model) ==
    /\ recreating[w].pc = "idle"
    /\ recreating' = [recreating EXCEPT ![w] =
          [pc |-> "entries", dimension |-> dimension, provider |-> provider,
           model |-> model, i |-> 0]]
    /\ last' = "recreate:called"
    /\ UNCHANGED <<milvus, vectors, prefs, dropping>>
    /\ UNCHANGED <<cfg, entries, embedding_error, liked, stats, queue, tasks, failures, locking, pv, limiting, replaying, scoring, auxiliary>>

\* has_collection, and drop_collection when the collection is there
recreate_drop(w) ==
    LET c == recreating[w].pc
    IN /\ c \in CollectionNames
       /\ IF Exists(c)
          THEN /\ dropping' = dropping \cup {<<c, collections[c].gen>>}
               /\ recreating' = [recreating EXCEPT ![w].pc = c \o ":poll", ![w].i = 0]
               /\ last' = "recreate:dropping"
          ELSE /\ recreating' = [recreating EXCEPT ![w].pc = AfterDrop(c)]
               /\ last' = "recreate:absent"
               /\ UNCHANGED dropping
       /\ UNCHANGED <<milvus, vectors, prefs>>
       /\ UNCHANGED <<cfg, entries, embedding_error, liked, stats, queue, tasks, failures, locking, pv, limiting, replaying, scoring, auxiliary>>

\* the store finishes a requested drop: the collection and its rows are gone
vanish(c) ==
    /\ <<c, collections[c].gen>> \in dropping
    /\ Exists(c)
    /\ collections' = [collections EXCEPT ![c].description = Absent]
    /\ dropping' = dropping \ {<<c, collections[c].gen>>}
    /\ vectors' = IF c = "entries" THEN {} ELSE vectors
    /\ prefs' = IF c = "prefs" THEN [u \in Users |-> [p \in Polarities |-> 0]] ELSE prefs
    /\ last' = "vanish:" \o c
    /\ UNCHANGED <<handles, recreating>>
    /\ UNCHANGED <<cfg, entries, embedding_error, liked, stats, queue, tasks, failures, locking, pv, limiting, replaying, scoring, auxiliary>>

\* the poll loop without its timeout
recreate_poll_unbounded(w) ==
    LET c == IF recreating[w].pc = "entries:poll" THEN "entries" ELSE "prefs"
        i == recreating[w].i
    IN /\ recreating[w].pc \in {"entries:poll", "prefs:poll"}
       /\ IF ~Exists(c)
          THEN /\ recreating' = [recreating EXCEPT ![w].pc = AfterDrop(c)]
               /\ last' = "recreate:gone"
          ELSE /\ recreating' = [recreating EXCEPT ![w].i = IF i < MaxPolls THEN i + 1 ELSE i]
               /\ last' = "recreate:waiting"
       /\ UNCHANGED <<milvus, vectors, prefs, dropping>>
       /\ UNCHANGED <<cfg, entries, embedding_error, liked, stats, queue, tasks, failures, locking, pv, limiting, replaying, scoring, auxiliary>>

\* one turn of "for i in range(30)": has_collection; break when the collection
\* is gone, otherwise sleep and, on the last turn, raise
recreate_poll(w) ==
    LET c == IF recreating[w].pc = "entries:poll" THEN "entries" ELSE "prefs"
        i == recreating[w].i
    IN /\ recreating[w].pc \in {"entries:poll", "prefs:poll"}
       /\ IF ~Exists(c)
          THEN /\ recreating' = [recreating EXCEPT ![w].pc = AfterDrop(c)]
               /\ last' = "recreate:gone"
          ELSE IF i = MaxPolls - 1
          THEN /\ recreating' = [recreating EXCEPT ![w] = IdleRecreate]
               /\ last' = "recreate:timeout"
          ELSE /\ recreating' = [recreating EXCEPT ![w].i = i + 1]
               /\ last' = "recreate:waiting"
       /\ UNCHANGED <<milvus, vectors, prefs, dropping>>
       /\ UNCHANGED <<cfg, entries, embedding_error, liked, stats, queue, tasks, failures, locking, pv, limiting, replaying, scoring, auxiliary>>

\* the collection exists and _create_*_collection does not accept it
Conflict(c, r) ==
    /\ Exists(c)
    /\ extract_model_signature(collections[c].description)
          # build_model_signature(r.provider, r.model, r.dimension)

\* _create_entries_collection and _create_user_preferences_collection after
\* the waits: an existing collection of the same signature is kept, one of
\* another signature raises RuntimeError
recreate_create(w) ==
    LET r == recreating[w]
        made(c) == IF Exists(c) THEN collections[c]
                   ELSE Created(c, r.provider, r.model, r.dimension)
    IN /\ r.pc = "create"
       /\ \A c \in CollectionNames : Exists(c) \/ collections[c].gen < MaxGen
       /\ recreating' = [recreating EXCEPT ![w] = IdleRecreate]
       /\ IF Conflict("entries", r)
          THEN /\ last' = "recreate:conflict"
               /\ UNCHANGED milvus
          ELSE IF Conflict("prefs", r)
          THEN /\ collections' = [collections EXCEPT !["entries"] = made("entries")]
               /\ handles' = [handles EXCEPT ![w]["entries"] = collections'["entries"].gen]
               /\ last' = "recreate:conflict"
          ELSE /\ collections' = [c \in CollectionNames |-> made(c)]
               /\ handles' = [handles EXCEPT ![w] =
                     [c \in CollectionNames |-> collections'[c].gen]]
               /\ last' = "recreate:done"
       /\ UNCHANGED <<vectors, prefs, dropping>>
       /\ UNCHANGED <<cfg, entries, embedding_error, liked, stats, queue, tasks, failures, locking, pv, limiting, replaying, scoring, auxiliary>>

\* ------------------------------------------------------------ ScoreService
\* PreferenceConfig
default_score == 50

confidence_threshold == 10

source_boost_max == 5

author_boost_max == 3

\* the calls made on one ScoreService instance
MaxCalls == 2

\* normalised vectors, in tenths
UnitVectors == {<<10, 0>>, <<-10, 0>>, <<6, 8>>}

\* sample counts of stored preference vectors, in tenths
SampleCounts == {7, 100}

Affinities == {[positive |-> 0, negative |-> 0],
               [positive |-> 5, negative |-> 1],
               [positive |-> 0, negative |-> 4]}

Preferences ==
    {NoPreference}
        \cup [present : {TRUE}, embedding : UnitVectors, sample_count : SampleCounts]

\* the negative vectors scored against
OpposedPreferences ==
    {NoPreference,
     [present |-> TRUE, embedding |-> <<-10, 0>>, sample_count |-> 100],
     [present |-> TRUE, embedding |-> <<10, 0>>, sample_count |-> 7]}

Statistics ==
    {NoStats}
        \cup [present : {TRUE}, source_affinity : Affinities, author_affinity : Affinities]

\* the lists of entries a batch is called with
Batches == {<<>>, <<"e1">>, <<"e2">>, <<"e1", "e2">>}

\* the vector store and the database hold these rows: the vector of each
\* entry (<<>>: none), the preference vectors and the statistics row
store_rows(v1, v2, pos, neg, st) ==
    /\ ~scorerows.seeded
    /\ scorerows' = [seeded |-> TRUE,
                     embeddings |-> [e \in EntryIds |-> IF e = "e1" THEN v1 ELSE v2],
                     prefs |-> [p \in Polarities |-> IF p = "positive" THEN pos ELSE neg],
                     stats |-> st]
    /\ last' = "rows"
    /\ UNCHANGED <<scored, queries>>
    /\ UNCHANGED <<cfg, store, queue, tasks, failures, locking, milvus, pv, replaying, limiting, recreation, auxiliary>>

\* fractions <<numerator, denominator>> with a positive denominator
FracAdd(x, y) == <<x[1] * y[2] + y[1] * x[2], x[2] * y[2]>>

FracMul(x, y) == <<x[1] * y[1], x[2] * y[2]>>

\* np.dot of two vectors in tenths: the similarity in hundredths
dot(a, b) == a[1] * b[1] + a[2] * b[2]

\* float(np.dot(entry_vec, vec)) of a stored preference vector, else 0.0
similarity(entry_vec, pref) ==
    IF pref.present THEN dot(entry_vec, pref.embedding) ELSE 0

\* the sample counts of the stored preference vectors, in tenths
total_samples(P) ==
    (IF P["positive"].present THEN P["positive"].sample_count ELSE 0)
        + (IF P["negative"].present THEN P["negative"].sample_count ELSE 0)

\* min(1.0, total_samples / confidence_threshold)
confidence(P) ==
    IF total_samples(P) >= 10 * confidence_threshold THEN <<1, 1>>
    ELSE <<total_samples(P), 10 * confidence_threshold>>

\* (raw_score + 1) / 2 * 100, raw_score in hundredths
base_score(raw_score) == <<raw_score + 100, 2>>

\* a blend that always goes half way to the neutral score
score_half_blended(base, c) == FracAdd(FracMul(base, <<1, 2>>), <<25, 1>>)

\* base_score * confidence + 50 * (1 - confidence)
score_with_confidence(base, c) ==
    FracAdd(FracMul(base, c), FracMul(<<50, 1>>, <<c[2] - c[1], c[2]>>))

\* _calc_affinity_boost
calc_affinity_boost(affinity, max_boost) ==
    LET pos == affinity.positive
        neg == affinity.negative
        total == pos + neg
    IN IF total = 0 THEN <<0, 1>> ELSE <<(pos - neg) * max_boost, total>>

\* a final score that is not clamped
clamp_none(x) == x

\* max(0, min(100, final_score))
clamp(x) ==
    IF x[1] < 0 THEN <<0, 1>>
    ELSE IF x[1] > 100 * x[2] THEN <<100, 1>>
    ELSE x

\* round(final_score, 1) of a score that is not negative: the nearest tenth,
\* a tie to the even one
round1(x) ==
    LET q == (10 * x[1]) \div x[2]
        r == (10 * x[1]) % x[2]
    IN IF 2 * r > x[2] \/ (2 * r = x[2] /\ q % 2 = 1) THEN q + 1 ELSE q

\* stats.source_affinity.get(entry.feed_id, {}): the statistics know the feed
\* of e1 only
source_affinity(st, e) ==
    IF e = "e1" THEN st.source_affinity ELSE [positive |-> 0, negative |-> 0]

\* entry.author and stats.author_affinity.get(entry.author, {}): e1 has an
\* author, e2 has none
author_affinity(st, e) ==
    IF e = "e1" THEN st.author_affinity ELSE [positive |-> 0, negative |-> 0]

\* the score of an entry that has a vector for a user that has a preference
\* vector: similarities, confidence, blend, boosts, clamp, rounding (tenths)
final_score(e, entry_vec, P, st) ==
    LET positive_sim == similarity(entry_vec, P["positive"])
        negative_sim == similarity(entry_vec, P["negative"])
        base == base_score(positive_sim - negative_sim)
        blended == score_with_confidence(base, confidence(P))
        source_boost == IF st.present
                        THEN calc_affinity_boost(source_affinity(st, e), source_boost_max)
                        ELSE <<0, 1>>
        author_boost == IF st.present
                        THEN calc_affinity_boost(author_affinity(st, e), author_boost_max)
                        ELSE <<0, 1>>
        final == clamp(FracAdd(blended, FracAdd(source_boost, author_boost)))
    IN [score |-> round1(final), reason |-> Null,
        positive_sim |-> positive_sim, negative_sim |-> negative_sim,
        confidence |-> confidence(P), base |-> base, blended |-> blended,
        source_boost |-> source_boost, author_boost |-> author_boost]

\* the default result of calculate_score with its reason code
default_result(reason) ==
    [score |-> 10 * default_score, reason |-> reason,
     positive_sim |-> 0, negative_sim |-> 0,
     confidence |-> <<0, 1>>, base |-> <<50, 1>>, blended |-> <<50, 1>>,
     source_boost |-> <<0, 1>>, author_boost |-> <<0, 1>>]

\* calculate_score that blends and boosts without a preference vector
calculate_score_always(u, e, found) ==
    LET embedding == scorerows.embeddings[e]
        P == scorerows.prefs
    IN /\ scorerows.seeded
       /\ queries.calls < MaxCalls
       /\ IF embedding = <<>>
          THEN /\ scored' = [call |-> "calculate_score", entry |-> e,
                             result |-> default_result("no_embedding")]
               /\ queries' = [queries EXCEPT !.calls = @ + 1]
          ELSE IF ~found
          THEN /\ scored' = [call |-> "calculate_score", entry |-> e,
                             result |-> default_result("entry_not_found")]
               /\ queries' = [queries EXCEPT !.calls = @ + 1]
          ELSE /\ scored' = [call |-> "calculate_score", entry |-> e,
                             result |-> final_score(e, embedding, P, scorerows.stats)]
               /\ queries' = [queries EXCEPT !.calls = @ + 1, !.stats[u] = @ + 1]
       /\ last' = "calculate_score"
       /\ UNCHANGED scorerows
       /\ UNCHANGED <<cfg, store, queue, tasks, failures, locking, milvus, pv, replaying, limiting, recreation, auxiliary>>

\* calculate_score(user_id, entry_id, entry); found: the entry row is passed
\* in or is in the database
calculate_score(u, e, found) ==
    LET embedding == scorerows.embeddings[e]
        P == scorerows.prefs
    IN /\ scorerows.seeded
       /\ queries.calls < MaxCalls
       /\ IF embedding = <<>>
          THEN /\ scored' = [call |-> "calculate_score", entry |-> e,
                             result |-> default_result("no_embedding")]
               /\ queries' = [queries EXCEPT !.calls = @ + 1]
          ELSE IF ~found
          THEN /\ scored' = [call |-> "calculate_score", entry |-> e,
                             result |-> default_result("entry_not_found")]
               /\ queries' = [queries EXCEPT !.calls = @ + 1]
          ELSE IF ~P["positive"].present /\ ~P["negative"].present
          THEN /\ scored' = [call |-> "calculate_score", entry |-> e,
                             result |-> default_result("no_preference_model")]
               /\ queries' = [queries EXCEPT !.calls = @ + 1]
          ELSE /\ scored' = [call |-> "calculate_score", entry |-> e,
                             result |-> final_score(e, embedding, P, scorerows.stats)]
               /\ queries' = [queries EXCEPT !.calls = @ + 1, !.stats[u] = @ + 1]
       /\ last' = "calculate_score"
       /\ UNCHANGED scorerows
       /\ UNCHANGED <<cfg, store, queue, tasks, failures, locking, milvus, pv, replaying, limiting, recreation, auxiliary>>

\* the entries of a list
Listed(es) == {es[i] : i \in DOMAIN es}

\* batch_calculate_scores that looks every entry's vector up by itself
batch_calculate_scores_each(u, es) ==
    LET P == scorerows.prefs
        has_preference == P["positive"].present \/ P["negative"].present
        score(e) == IF ~has_preference \/ scorerows.embeddings[e] = <<>>
                    THEN 10 * default_score
                    ELSE final_score(e, scorerows.embeddings[e], P, scorerows.stats).score
    IN /\ scorerows.seeded
       /\ queries.calls < MaxCalls
       /\ scored' = [call |-> "batch_calculate_scores", entries |-> es,
                     scores |-> [e \in Listed(es) |-> score(e)],
                     fetched |-> [prefs |-> 1, stats |-> 1,
                                  embeddings |-> IF has_preference THEN Len(es) ELSE 0]]
       /\ queries' = [queries EXCEPT !.calls = @ + 1, !.stats[u] = @ + 1]
       /\ last' = "batch_calculate_scores"
       /\ UNCHANGED scorerows
       /\ UNCHANGED <<cfg, store, queue, tasks, failures, locking, milvus, pv, replaying, limiting, recreation, auxiliary>>

\* batch_calculate_scores(user_id, entries): the scores by entry id, and the
\* number of lookups the call made
batch_calculate_scores(u, es) ==
    LET P == scorerows.prefs
        has_preference == P["positive"].present \/ P["negative"].present
        score(e) == IF ~has_preference \/ scorerows.embeddings[e] = <<>>
                    THEN 10 * default_score
                    ELSE final_score(e, scorerows.embeddings[e], P, scorerows.stats).score
    IN /\ scorerows.seeded
       /\ queries.calls < MaxCalls
       /\ scored' = [call |-> "batch_calculate_scores", entries |-> es,
                     scores |-> [e \in Listed(es) |-> score(e)],
                     fetched |-> [prefs |-> 1, stats |-> 1,
                                  embeddings |-> IF has_preference THEN 1 ELSE 0]]
       /\ queries' = [queries EXCEPT !.calls = @ + 1, !.stats[u] = @ + 1]
       /\ last' = "batch_calculate_scores"
       /\ UNCHANGED scorerows
       /\ UNCHANGED <<cfg, store, queue, tasks, failures, locking, milvus, pv, replaying, limiting, recreation, auxiliary>>

\* -------------------------------------------------------- RateLimiter
\* the length of the sliding window, in seconds
Window == 60

\* the step of the clock and the last instant looked at
Tick == 20

MaxTime == 120

\* the rate limits a client is built with
RpmInputs == {0, 2}

max(a, b) == IF a > b THEN a ELSE b

\* RateLimiter.__init__
RateLimiter(rpm) ==
    /\ limiter = NoLimiter
    /\ limiter' = [rpm |-> max(1, rpm), lock |-> Null, timestamps |-> <<>>]
    /\ last' = "limiter:new"
    /\ UNCHANGED <<clock, acquirers, recorded>>
    /\ UNCHANGED <<cfg, store, queue, tasks, failures, locking, milvus, pv, replaying, recreation, scoring, auxiliary>>

\* time passes
tick ==
    /\ clock + Tick <= MaxTime
    /\ clock' = clock + Tick
    /\ last' = "tick"
    /\ UNCHANGED <<limiter, acquirers, recorded>>
    /\ UNCHANGED <<cfg, store, queue, tasks, failures, locking, milvus, pv, replaying, recreation, scoring, auxiliary>>

\* [ts for ts in self._timestamps if ts > window_start]
drop_old(timestamps, now) == SelectSeq(timestamps, LAMBDA ts : ts > now - Window)

\* acquire() from taking the lock to its sleep, or to its append and return
acquire_body(a) ==
    LET now == clock
        kept == drop_old(limiter.timestamps, now)
    IN IF Len(kept) >= limiter.rpm
       THEN /\ limiter' = [limiter EXCEPT !.lock = a, !.timestamps = kept]
            /\ acquirers' = [acquirers EXCEPT ![a] =
                  [pc |-> "sleep", wake |-> now + max(0, kept[1] + Window - now)]]
            /\ last' = "acquire:sleep"
            /\ UNCHANGED recorded
       ELSE /\ limiter' = [limiter EXCEPT !.lock = Null,
                                          !.timestamps = Append(kept, clock)]
            /\ acquirers' = [acquirers EXCEPT ![a] = IdleAcquire]
            /\ recorded' = Append(recorded, clock)
            /\ last' = "acquire:ok"

\* acquire() that does not take the lock
acquire_unlocked(a) ==
    /\ limiter # NoLimiter
    /\ acquirers[a].pc = "idle"
    /\ acquire_body(a)
    /\ UNCHANGED clock
    /\ UNCHANGED <<cfg, store, queue, tasks, failures, locking, milvus, pv, replaying, recreation, scoring, auxiliary>>

\* acquire() is called: the caller queues for the lock when it is held
acquire(a) ==
    /\ limiter # NoLimiter
    /\ acquirers[a].pc = "idle"
    /\ IF limiter.lock # Null
       THEN /\ acquirers' = [acquirers EXCEPT ![a].pc = "lock"]
            /\ last' = "acquire:queued"
            /\ UNCHANGED <<limiter, recorded>>
       ELSE acquire_body(a)
    /\ UNCHANGED clock
    /\ UNCHANGED <<cfg, store, queue, tasks, failures, locking, milvus, pv, replaying, recreation, scoring, auxiliary>>

\* a queued caller gets the lock
acquire_locked(a) ==
    /\ acquirers[a].pc = "lock"
    /\ limiter.lock = Null
    /\ acquire_body(a)
    /\ UNCHANGED clock
    /\ UNCHANGED <<cfg, store, queue, tasks, failures, locking, milvus, pv, replaying, recreation, scoring, auxiliary>>

\* asyncio.sleep(sleep_time) is over: clean again, append, release the lock
acquire_wake(a) ==
    /\ acquirers[a].pc = "sleep"
    /\ clock >= acquirers[a].wake
    /\ LET now == clock
           kept == drop_old(limiter.timestamps, now)
       IN limiter' = [limiter EXCEPT !.lock = Null,
                                     !.timestamps = Append(kept, clock)]
    /\ acquirers' = [acquirers EXCEPT ![a] = IdleAcquire]
    /\ recorded' = Append(recorded, clock)
    /\ last' = "acquire:slept"
    /\ UNCHANGED clock
    /\ UNCHANGED <<cfg, store, queue, tasks, failures, locking, milvus, pv, replaying, recreation, scoring, auxiliary>>

Admin ==
    \/ enable_embedding
    \/ disable_embedding
    \/ trigger_embedding_rebuild
    \/ cancel_embedding_rebuild

StatusReads ==
    \/ get_embedding_status
    \/ get_vectorization_status

Orchestration ==
    \/ \E m, p, v \in BOOLEAN : validate_and_rebuild_embeddings(m, p, v)
    \/ \E m \in BOOLEAN : rebuild_embeddings(m)

Feed == \E e \in EntryIds, m \in BOOLEAN : fetch_feed_task(e, m)

EmbeddingTasks ==
    \/ \E s \in Slots, j \in EmbeddingJobs, m, ok \in BOOLEAN : task_start(s, j, m, ok)
    \/ \E s \in Slots, e \in EntryIds : task_loop(s, e)
    \/ \E s \in Slots, ok \in BOOLEAN : task_embed(s, ok)
    \/ \E s \in Slots : task_reset(s)
    \/ \E s \in Slots : task_error(s)

\* administration, validation and rebuild orchestration
Next == Admin \/ StatusReads \/ Orchestration \/ Feed

Spec == Init /\ [][Next]_vars

\* configuration updates
NextConfig ==
    \/ enable_embedding
    \/ disable_embedding
    \/ trigger_embedding_rebuild
    \/ \E req \in AllRequests, d \in Dimensions \cup {0} :
          update_embedding_config(req, d)

SpecConfig == Init /\ [][NextConfig]_vars

\* the embedding pipeline: feed, rebuild, embedding tasks, status reads
NextEmbed ==
    \/ enable_embedding
    \/ StatusReads
    \/ Orchestration
    \/ Feed
    \/ EmbeddingTasks

SpecEmbed == Init /\ [][NextEmbed]_vars

\* repeated rebuilds of a deployment whose user likes the entry of its feed
NextRebuild ==
    \/ enable_embedding
    \/ trigger_embedding_rebuild
    \/ Orchestration
    \/ \E m \in BOOLEAN : fetch_feed_task("e1", m)
    \/ EmbeddingTasks
    \/ \E u \in Users : react_entry(u, "e1", "like")
    \/ \E u \in Users, m, ok \in BOOLEAN : update_user_preference(u, "e1", "like", m, ok)
    \/ \E u \in Users, m, ok \in BOOLEAN : rebuild_user_preference(u, m, ok)

SpecRebuild == Init /\ [][NextRebuild]_vars

\* concurrent embedding tasks of one enabled deployment with a single feed entry
NextBreaker ==
    \/ enable_embedding
    \/ Orchestration
    \/ \E m \in BOOLEAN : fetch_feed_task("e1", m)
    \/ deliver(JobBatch)
    \/ EmbeddingTasks

SpecBreaker == Init /\ [][NextBreaker]_vars

\* concurrent preference-vector updates
NextPref ==
    \/ \E c \in Callers, u \in Users, g \in DOMAIN SIGNAL_WEIGHTS, r \in BOOLEAN :
          call_start(c, u, g, r)
    \/ \E c \in Callers, t \in BOOLEAN : call_acquire(c, t)
    \/ \E c \in Callers : call_read(c)
    \/ \E c \in Callers : call_write(c)
    \/ \E c \in Callers : call_raise(c)
    \/ \E c \in Callers : call_release(c)
    \/ \E u \in Users, p \in Polarities : lock_expire(u, p)

SpecPref == Init /\ [][NextPref]_vars

\* the vector store under two worker processes
NextMilvus ==
    \/ \E w \in Clients, d \in Dimensions, m \in Models, ok \in BOOLEAN :
          ensure_collections(w, d, "openai", m, ok)
    \/ \E e \in {"e1"}, hm \in BOOLEAN : fetch_feed_task(e, hm)
    \/ \E w \in Clients, e \in EntryIds, f \in Faults : insert_entry_embedding(w, e, f)
    \/ \E w \in Clients, u \in Users, p \in Polarities, f \in Faults :
          upsert_user_preference(w, u, p, 10, f)
    \/ \E w \in Clients, e \in EntryIds, f \in Faults : delete_entry_embedding(w, e, f)
    \/ \E w \in Clients, u \in Users, f \in Faults : delete_user_preferences(w, u, f)

SpecMilvus == Init /\ [][NextMilvus]_vars

\* signals applied to a user's vectors one after another
NextAverage ==
    \E a \in ArticleEmbeddings, g \in DOMAIN SIGNAL_WEIGHTS : apply_signal(a, g)

SpecAverage == Init /\ [][NextAverage]_vars

\* a user's reactions to the embedded entries of a feed, and rebuilds of the
\* preference model from them
NextHistory ==
    \/ enable_embedding
    \/ \E p, v \in BOOLEAN : validate_and_rebuild_embeddings(TRUE, p, v)
    \/ rebuild_embeddings(TRUE)
    \/ \E e \in EntryIds : fetch_feed_task(e, TRUE)
    \/ ensure_collections("w1", cfg.dimension, cfg.provider, cfg.model, TRUE)
    \/ \E e \in EntryIds : insert_entry_embedding("w1", e, "none")
    \/ \E u \in Users, e \in EntryIds, g \in Signals : react_entry(u, e, g)
    \/ \E u \in Users : queue_rebuild(u)
    \/ \E u \in Users, e \in EntryIds, g \in Signals :
          update_user_preference(u, e, g, TRUE, TRUE)
    \/ \E u \in Users : rebuild_user_preference(u, TRUE, TRUE)

SpecHistory == Init /\ [][NextHistory]_vars

\* one entry of a feed, the user's reactions to it and the preference jobs,
\* under every vectorization state
NextSignals ==
    \/ enable_embedding
    \/ disable_embedding
    \/ \E p \in BOOLEAN : validate_and_rebuild_embeddings(TRUE, p, TRUE)
    \/ rebuild_embeddings(TRUE)
    \/ fetch_feed_task("e1", TRUE)
    \/ ensure_collections("w1", cfg.dimension, cfg.provider, cfg.model, TRUE)
    \/ insert_entry_embedding("w1", "e1", "none")
    \/ \E u \in Users : react_entry(u, "e1", "like")
    \/ \E u \in Users : queue_rebuild(u)
    \/ \E u \in Users, ok \in BOOLEAN : update_user_preference(u, "e1", "like", TRUE, ok)
    \/ \E u \in Users, ok \in BOOLEAN : rebuild_user_preference(u, TRUE, ok)

SpecSignals == Init /\ [][NextSignals]_vars

\* one client recreates the collections while another ensures them
NextRecreate ==
    \/ \E d \in Dimensions : ensure_collections("w2", d, "openai", "m1", TRUE)
    \/ \E d \in Dimensions : recreate_collections("w1", d, "openai", "m1")
    \/ recreate_drop("w1")
    \/ recreate_poll("w1")
    \/ recreate_create("w1")
    \/ \E c \in CollectionNames : vanish(c)

SpecRecreate == Init /\ [][NextRecreate]_vars

\* scoring calls on one ScoreService over the rows of the stores
NextScore ==
    \/ \E v1 \in {<<>>, <<10, 0>>, <<6, 8>>}, v2 \in {<<>>, <<6, 8>>},
          pos \in Preferences, neg \in OpposedPreferences, st \in Statistics :
            store_rows(v1, v2, pos, neg, st)
    \/ \E u \in Users, e \in EntryIds, found \in BOOLEAN : calculate_score(u, e, found)
    \/ \E u \in Users, es \in Batches : batch_calculate_scores(u, es)

SpecScore == Init /\ [][NextScore]_vars

\* concurrent callers of one rate limiter
NextLimiter ==
    \/ \E rpm \in RpmInputs : RateLimiter(rpm)
    \/ tick
    \/ \E a \in Callers : acquire(a)
    \/ \E a \in Callers : acquire_locked(a)
    \/ \E a \in Callers : acquire_wake(a)

SpecLimiter == Init /\ [][NextLimiter]_vars

\* ------------------------------------------------------------ properties
\* a worker job of any kind starts executing
JobStarts ==
    \/ \E m, p, v \in BOOLEAN : validate_and_rebuild_embeddings(m, p, v)
    \/ \E m \in BOOLEAN : rebuild_embeddings(m)
    \/ \E s \in Slots, j \in EmbeddingJobs, m, ok \in BOOLEAN : task_start(s, j, m, ok)
    \/ \E u \in Users, e \in EntryIds, g \in Signals, m, ok \in BOOLEAN :
          update_user_preference(u, e, g, m, ok)
    \/ \E u \in Users, m, ok \in BOOLEAN : rebuild_user_preference(u, m, ok)

\* the number of entry rows, and of those that are done or failed
TotalEntries == Cardinality(DOMAIN entries)

FinishedEntries ==
    Cardinality({e \in DOMAIN entries : entries[e] \in {"done", "failed"}})

\* no call on the vector is in flight
Quiet(u, p) ==
    \A c \in Callers : Running(c) => (KeyUser(c) # u \/ KeyType(c) # p)

C2_TripsAtThreshold ==
    [][/\ \A s \in Slots :
            task_error(s)
              => (last' = "task:tripped" /\ cfg'.status = ERROR
                    <=> tasks[s].k >= CONSECUTIVE_FAILURES_THRESHOLD)
       /\ \A s \in Slots : task_reset(s) => cfg'.error_count = 0]_vars

C4_JobsNoOpWhenDisabled ==
    [][(~cfg.enabled /\ cfg.status = DISABLED /\ JobStarts)
         => /\ cfg' = cfg
            /\ store' = store
            /\ tasks' = tasks
            /\ \A j \in Jobs : queue'[j] <= queue[j]]_vars

\* C5: disable_embedding, called in any state, sets enabled = false,
\* status = disabled, rebuild_id = null and rebuild_started_at = null in one
\* step and touches nothing else; a second call right after leaves the whole
\* record unchanged.
C5_DisableImmediateIdempotent ==
    [][disable_embedding
         => /\ cfg'.enabled = FALSE
            /\ cfg'.status = DISABLED
            /\ cfg'.rebuild_id = Null
            /\ cfg'.rebuild_started_at = Null
            /\ \A f \in DOMAIN cfg \ {"enabled", "status", "rebuild_id",
                                      "rebuild_started_at"} : cfg'[f] = cfg[f]
            /\ UNCHANGED <<store, queue, tasks>>
            /\ (last = "disable" => cfg' = cfg)]_vars

C5_Witness ==
    /\ last = "disable"
    /\ ~cfg.enabled
    /\ cfg.status = DISABLED
    /\ cfg.last_error # Null
    /\ queue[JobRebuild] > 0

\* C6: enable_embedding called while enabled = false sets enabled = true and
\* status = validating and enqueues exactly one validate job; called while
\* enabled is already true it changes nothing and enqueues nothing.
C6_Enable ==
    [][enable_embedding
         => IF cfg.enabled
            THEN cfg' = cfg /\ queue' = queue /\ store' = store
            ELSE /\ cfg'.enabled = TRUE
                 /\ cfg'.status = VALIDATING
                 /\ queue'[JobValidate] = queue[JobValidate] + 1
                 /\ \A j \in Jobs \ {JobValidate} : queue'[j] = queue[j]
                 /\ store' = store]_vars

C6_Witness ==
    /\ last = "enable:ok"
    /\ cfg.enabled
    /\ cfg.status = VALIDATING
    /\ queue[JobValidate] = 1

\* C7: validate_and_rebuild_embeddings enqueues a rebuild job only in a run in
\* which the provider test and the vector-store test both succeeded; if either
\* fails or no vector-store client is available the status becomes error with
\* last_error set and no rebuild job is enqueued; if enabled is false the run
\* changes nothing.
C7_Validate ==
    [][\A m, p, v \in BOOLEAN :
          validate_and_rebuild_embeddings(m, p, v)
            => /\ store' = store
               /\ \A j \in Jobs \ {JobValidate, JobRebuild} : queue'[j] = queue[j]
               /\ IF ~cfg.enabled
                  THEN cfg' = cfg /\ queue'[JobRebuild] = queue[JobRebuild]
                  ELSE IF m /\ p /\ v
                  THEN cfg' = cfg /\ queue'[JobRebuild] = queue[JobRebuild] + 1
                  ELSE /\ cfg'.status = ERROR
                       /\ cfg'.last_error # Null
                       /\ queue'[JobRebuild] = queue[JobRebuild]]_vars

C7_Witness ==
    /\ last = "validate:failed"
    /\ cfg.status = ERROR
    /\ cfg.last_error = "milvus validation failed"
    /\ queue[JobRebuild] = 0

\* C8: a rebuild_embeddings run that returns success has set the status to
\* rebuilding and every entry to pending, and has enqueued exactly one
\* generate_entry_embedding job for every entry and exactly one
\* rebuild_user_preference job for every user with a statistics row, and no
\* other job.
C8_RebuildCoversAll ==
    [][((\E m \in BOOLEAN : rebuild_embeddings(m)) /\ last' = "rebuild:success")
         => /\ cfg'.status = REBUILDING
            /\ DOMAIN entries' = DOMAIN entries
            /\ \A e \in DOMAIN entries : entries'[e] = "pending"
            /\ \A e \in DOMAIN entries :
                  queue'[JobGenerate(e)] = queue[JobGenerate(e)] + 1
            /\ \A u \in stats :
                  queue'[JobRebuildPref(u)] = queue[JobRebuildPref(u)] + 1
            /\ \A j \in Jobs \ ({JobRebuild}
                                  \cup {JobGenerate(e) : e \in DOMAIN entries}
                                  \cup {JobRebuildPref(u) : u \in stats}) :
                  queue'[j] = queue[j]]_vars

C8_Witness ==
    /\ last = "rebuild:success"
    /\ cfg.status = REBUILDING
    /\ stats # {}
    /\ \A u \in stats : queue[JobRebuildPref(u)] = 1
    /\ "e1" \in vectors
    /\ entries["e1"] = "pending"
    /\ queue[JobGenerate("e1")] = 1

\* an update stored other values for the fields that define the embedding space
RebuildFieldChanged == \E f \in RebuildFields : cfg'[f] # cfg[f]

UpdateStep ==
    \E req \in AllRequests, d \in Dimensions \cup {0} : update_embedding_config(req, d)

Revalidates ==
    /\ cfg'.version # cfg.version
    /\ cfg'.status = VALIDATING
    /\ queue'[JobValidate] = queue[JobValidate] + 1

\* C9 as stated: any configuration update that changes provider, model,
\* dimension, api_key or base_url assigns a new version token, sets the status
\* to validating and enqueues a validate job; an update that changes none of
\* them leaves version and status unchanged.
C9_AnyChangeRevalidates ==
    [][UpdateStep
         => IF RebuildFieldChanged
            THEN Revalidates
            ELSE cfg'.version = cfg.version /\ cfg'.status = cfg.status]_vars

\* C9, amended: an update that changes one of these fields and leaves the
\* configuration enabled assigns a new version token, sets the status to
\* validating and enqueues one validate job; an update that changes none of
\* them, or after which enabled is false, leaves version and status unchanged
\* and enqueues nothing.
C9_EnabledChangeRevalidates ==
    [][UpdateStep
         => IF RebuildFieldChanged /\ cfg'.enabled
            THEN Revalidates
            ELSE /\ cfg'.version = cfg.version
                 /\ cfg'.status = cfg.status
                 /\ queue' = queue]_vars

C9_Witness ==
    /\ last = "update:revalidate"
    /\ cfg.version = 1
    /\ cfg.status = VALIDATING
    /\ cfg.api_key = "k1"
    /\ queue[JobValidate] = 1

\* C10: while the status is error no job that starts executing writes an entry
\* status, an entry vector or a preference vector, and the status leaves error
\* only by an operator action, towards validating (or disabled).
C10_ErrorHaltsWork ==
    [][(cfg.status = ERROR /\ JobStarts
          => UNCHANGED <<entries, vectors, prefs>> /\ tasks' = tasks)
       /\ (cfg.status = ERROR /\ cfg'.status # ERROR
          => /\ cfg'.status \in {VALIDATING, DISABLED}
             /\ (trigger_embedding_rebuild \/ disable_embedding \/ UpdateStep))]_vars

\* an ensure_collections call that returns normally
EnsureReturns(w, d, pr, m) ==
    /\ last' \in {"ensure:kept", "ensure:created", "ensure:recreated", "ensure:ok"}
    /\ ensure_collections(w, d, pr, m, TRUE)

\* both collections were created for this configuration
CarrySignature(d, pr, m) ==
    \A c \in CollectionNames : collections[c].description = Description(c, pr, m, d)

\* C12: ensure_collections called again with the same (provider, model,
\* dimension) while both collections carry that signature drops nothing and
\* creates nothing, and every stored entry vector and preference vector is
\* still present afterwards.
C12_EnsureIdempotent ==
    [][\A w \in Clients, d \in Dimensions, pr \in {"openai"}, m \in Models :
          (CarrySignature(d, pr, m) /\ EnsureReturns(w, d, pr, m))
            => /\ collections' = collections
               /\ vectors' = vectors
               /\ prefs' = prefs]_vars

\* C13: when ensure_collections returns normally both collections exist and
\* carry the signature of the call, and the client's handles name them; if an
\* existing collection was created for a different configuration, both are
\* new incarnations and every prior vector is gone.
C13_EnsureMatchesSignature ==
    [][\A w \in Clients, d \in Dimensions, pr \in {"openai"}, m \in Models :
          EnsureReturns(w, d, pr, m)
            => /\ \A c \in CollectionNames :
                     /\ collections'[c].description = Description(c, pr, m, d)
                     /\ handles'[w][c] = collections'[c].gen
               /\ (\E c \in CollectionNames :
                      Exists(c) /\ collections[c].description # Description(c, pr, m, d))
                    => /\ \A c \in CollectionNames : collections'[c].gen > collections[c].gen
                       /\ vectors' = {}
                       /\ prefs' = [u \in Users |-> [p \in Polarities |-> 0]]]_vars

C13_Witness ==
    /\ last = "ensure:recreated"
    /\ CarrySignature(16, "openai", "m1")
    /\ \A c \in CollectionNames : collections[c].gen = 2
    /\ handles["w2"]["entries"] = 2
    /\ handles["w1"]["entries"] = 1
    /\ vectors = {}

\* what a mutating call owes its caller: with a handle that another worker's
\* drop-and-recreate made stale, success on the second attempt, or the error
\* of the second attempt; an error of another class after one attempt
RetryContract(w, c, fault, op) ==
    /\ (handles[w][c] # NoHandle /\ fault = "other")
          => last' = op \o ":error:1"
    /\ (handles[w][c] # NoHandle /\ Stale(w, c) /\ Exists(c) /\ fault = "none")
          => last' = op \o ":ok:2" /\ handles'[w][c] = collections[c].gen
    /\ (handles[w][c] # NoHandle /\ Stale(w, c) /\ Exists(c) /\ fault = "again")
          => last' = op \o ":error:2"

\* C14: each of insert_entry_embedding, upsert_user_preference,
\* delete_entry_embedding and delete_user_preferences that meets "collection
\* not found" after another worker recreated the collection refreshes its
\* handle and retries exactly once; a second failure, or an error of another
\* class, is surfaced without further retry.
C14_MutatingCallsRetryOnce ==
    [][\A w \in Clients, f \in Faults :
          /\ \A e \in EntryIds :
                insert_entry_embedding(w, e, f)
                  => RetryContract(w, "entries", f, "insert_entry_embedding")
          /\ \A u \in Users, p \in Polarities :
                upsert_user_preference(w, u, p, 10, f)
                  => RetryContract(w, "prefs", f, "upsert_user_preference")
          /\ \A e \in EntryIds :
                delete_entry_embedding(w, e, f)
                  => RetryContract(w, "entries", f, "delete_entry_embedding")
          /\ \A u \in Users :
                delete_user_preferences(w, u, f)
                  => RetryContract(w, "prefs", f, "delete_user_preferences")]_vars

\* the lock of call c's key is held by another call
HeldByOther(c) == lock[KeyUser(c)][KeyType(c)] \notin {Null, c}

\* C15: when the lock is not obtained within the blocking timeout the call
\* fails with TimeoutError: it has not read the preference vector, the stored
\* vectors and the lock are as before, and the failed call performs no later
\* step.
C15_TimeoutTouchesNothing ==
    [][\A c \in Callers :
          /\ (call_acquire(c, TRUE) /\ HeldByOther(c))
                => /\ calls'[c].pc = "failed"
                   /\ calls'[c].read = calls[c].read
                   /\ prefs' = prefs
                   /\ lock' = lock
          /\ (calls[c].pc = "failed" /\ calls'[c] # calls[c])
                => last' = "call:start"]_vars

C15_Witness ==
    /\ last = "call:timeout"
    /\ calls["c2"].pc = "failed"
    /\ calls["c2"].read = 0
    /\ lock["u1"]["positive"] = "c1"
    /\ calls["c1"].pc = "write"
    /\ prefs["u1"]["positive"] = 0

\* a lock is held only by a call that is between its acquire and its release
HolderInside ==
    \A u \in Users, p \in Polarities :
        lock[u][p] # Null
          => /\ calls[lock[u][p]].pc \in {"read", "write", "release", "unwind"}
             /\ KeyUser(lock[u][p]) = u
             /\ KeyType(lock[u][p]) = p

\* C16: the lock is released on every exit path of the update, the exception
\* raised inside the read-modify-write included, so no finished call holds a
\* lock and a later update of the same user and polarity finds it free; and a
\* lock is taken from its holder only by the holder's own release or by its
\* timeout, never by the release of a call that does not hold it.
C16_LockAlwaysReleased ==
    /\ []HolderInside
    /\ [][\A c \in Callers :
             /\ (call_release(c) /\ lock[KeyUser(c)][KeyType(c)] = c)
                   => lock'[KeyUser(c)][KeyType(c)] = Null
             /\ (call_release(c) /\ lock[KeyUser(c)][KeyType(c)] # c)
                   => lock' = lock
             /\ (calls[c].pc = "acquire" /\ calls'[c].pc = "failed")
                   => lock' = lock]_vars

C16_Witness ==
    /\ last = "call:released"
    /\ calls["c1"].pc = "failed"
    /\ calls["c1"].redis
    /\ calls["c1"].read = 0
    /\ lock["u1"]["positive"] = Null
    /\ calls["c2"].pc = "acquire"
    /\ KeyType("c2") = "positive"
    /\ calls["c2"].waited

\* C17: the positive and the negative vector of a user have different lock
\* keys: an acquire whose own key is free takes the lock at once whatever the
\* state of the other key, and a call waits or times out only while the lock
\* of its own user and polarity is held by another call.
C17_PolaritiesIndependent ==
    [][\A c \in Callers, t \in BOOLEAN :
          call_acquire(c, t)
            => /\ lock[KeyUser(c)][KeyType(c)] = Null
                    => /\ calls'[c].pc = "read"
                       /\ lock'[KeyUser(c)][KeyType(c)] = c
               /\ calls'[c].pc # "read" => HeldByOther(c)]_vars

C17_Witness ==
    /\ last = "call:acquired"
    /\ lock["u1"]["positive"] = "c1"
    /\ lock["u1"]["negative"] = "c2"
    /\ ~calls["c1"].waited
    /\ ~calls["c2"].waited
    /\ calls["c1"].pc = "read"
    /\ calls["c2"].pc = "read"

\* a preference job that passed its vectorization check raises
PreferenceTaskRaises ==
    /\ pref_check(cfg) = "proceed"
    /\ \/ \E u \in Users, e \in EntryIds, g \in Signals :
             update_user_preference(u, e, g, TRUE, FALSE)
       \/ \E u \in Users : rebuild_user_preference(u, TRUE, FALSE)

\* an embedding task that raised finishes its error handling
EmbeddingTaskRaised == \E s \in Slots : task_error(s)

\* C11: every exception raised inside an embedding task or inside a
\* preference task increments error_count by exactly one.
C11_ExceptionCountsOnce ==
    [][(PreferenceTaskRaises \/ EmbeddingTaskRaised)
          => cfg'.error_count = cfg.error_count + 1]_vars

\* C18: a preference signal for an article that has no stored vector is a
\* silent no-op: the job ends normally and the preference vectors, their
\* sample counts and the affinity statistics are as before.
C18_NoVectorNoOp ==
    [][\A u \in Users, e \in EntryIds, g \in Signals :
          (/\ update_user_preference(u, e, g, TRUE, TRUE)
           /\ pref_check(cfg) = "proceed"
           /\ e \notin vectors)
            => /\ prefs' = prefs
               /\ stats' = stats
               /\ last' = "uup:done"]_vars

C18_Witness ==
    /\ last = "uup:done"
    /\ "e1" \in DOMAIN entries
    /\ "e1" \notin vectors
    /\ liked["u1"]["e1"] = "like"
    /\ prefs["u1"]["positive"] = 0
    /\ stats = {}
    /\ pref_check(cfg) = "proceed"

\* the fraction pre equals num / den
EqualsFraction(pre, num, den) == pre[1] * den = num * pre[2]

\* C19: a signal of weight w for an article vector v1 applied to a stored
\* vector (c0, v0) stores the count c0 + |w| and, before normalisation, the
\* embedding (v0 * c0 + v1 * |w|) / (c0 + |w|); applied where no vector is
\* stored it stores the count |w| and, before normalisation, v1 * |w|; the
\* sample count never decreases.
C19_MovingAverage ==
    [][\A v1 \in ArticleEmbeddings, g \in DOMAIN SIGNAL_WEIGHTS :
          apply_signal(v1, g)
            => LET w == SIGNAL_WEIGHTS[g]
                   p == vector_type(w)
                   c0 == pv[p].count
                   v0 == pv[p].embedding
               IN /\ pv'[p].count >= c0
                  /\ IF c0 = 0
                     THEN /\ pv'[p].count = abs(w)
                          /\ EqualsFraction(pv'[p].pre, v1 * abs(w), 10)
                     ELSE /\ pv'[p].count = c0 + abs(w)
                          /\ EqualsFraction(pv'[p].pre, v0 * c0 + v1 * abs(w),
                                            c0 + abs(w))]_vars

C19_Witness ==
    /\ last = "apply:bookmark"
    /\ pv["positive"].count = 17
    /\ pv["positive"].pre = <<3, 17>>
    /\ pv["positive"].embedding = 1
    /\ pv["negative"].count = 20
    /\ pv["negative"].pre = <<0, 20>>

\* the number of the user's reactions of one kind
Reactions(u, g) == Cardinality({e \in Feedback(u) : liked[u][e] = g})

\* C20: rebuild_from_history deletes the user's vectors and statistics row and
\* replays every like and dislike in the order in which the reactions were
\* made; when every entry the user reacted to has a vector, the positive
\* sample count afterwards is the number of likes and the negative one the
\* number of dislikes (a weight of 1.0 is 10 tenths).
C20_RebuildReplaysInOrder ==
    [][\A u \in Users :
          (rebuild_user_preference(u, TRUE, TRUE) /\ pref_check(cfg) = "proceed")
            => /\ replayed'[u] = history[u]
               /\ Feedback(u) \subseteq vectors
                    => /\ prefs'[u]["positive"] = 10 * Reactions(u, "like")
                       /\ prefs'[u]["negative"] = 10 * Reactions(u, "dislike")
                       /\ (u \in stats') = (Feedback(u) # {})]_vars

\* what a preference job owes the vectorization state it meets: its outcome
\* (tag names the job), and in the cases that do not proceed the stored
\* preference vectors and statistics as before
ReactsToState(tag, j) ==
    IF ~cfg.enabled \/ cfg.status = DISABLED
    THEN /\ last' = tag \o ":skipped"
         /\ queue'[j] = queue[j] - 1
         /\ prefs' = prefs /\ stats' = stats
    ELSE IF cfg.status = VALIDATING
    THEN /\ last' = tag \o ":retry:30"
         /\ queue' = queue
         /\ prefs' = prefs /\ stats' = stats
    ELSE IF cfg.status = ERROR
    THEN /\ last' = tag \o ":retry:120"
         /\ queue' = queue
         /\ prefs' = prefs /\ stats' = stats
    ELSE /\ cfg.status \in {IDLE, REBUILDING}
         /\ last' \in {tag \o ":done", tag \o ":raised"}

\* C21: update_user_preference and rebuild_user_preference return a failure
\* result without retry when vectorization is disabled, raise a Retry deferred
\* by 30 seconds while the status is validating and by 2 minutes while it is
\* error, and proceed only when the status is idle or rebuilding; in the cases
\* that do not proceed no preference vector and no statistic changes.
C21_PreferenceJobsReactToState ==
    [][\A u \in Users, ok \in BOOLEAN :
          /\ \A e \in EntryIds, g \in Signals :
                update_user_preference(u, e, g, TRUE, ok)
                  => ReactsToState("uup", JobUpdatePref(u, e, g))
          /\ rebuild_user_preference(u, TRUE, ok)
                => ReactsToState("rup", JobRebuildPref(u))]_vars

C21_Witness ==
    /\ last = "rup:retry:120"
    /\ cfg.enabled
    /\ cfg.status = ERROR
    /\ queue[JobRebuildPref("u1")] = 1
    /\ queue[JobUpdatePref("u1", "e1", "like")] = 1
    /\ liked["u1"]["e1"] = "like"
    /\ prefs["u1"]["positive"] = 10

\* the row and the vector store after generate_embedding went through its try
\* block for the entry of slot s: done with the vector stored and no error
\* text, or failed with the error text and no vector written; the entry is
\* off the slot's list, so the service does not call the provider again
GenerateEnds(s) ==
    LET e == tasks[s].entry
    IN /\ tasks'[s].pc = "loop"
       /\ tasks'[s].entry = Null
       /\ e \notin tasks'[s].todo
       /\ \/ /\ last' = "task:done"
             /\ tasks'[s].hit
             /\ entries'[e] = "done"
             /\ embedding_error'[e] = Null
             /\ e \in vectors'
          \/ /\ last' = "task:failed"
             /\ tasks'[s].hit = tasks[s].hit
             /\ entries'[e] = "failed"
             /\ embedding_error'[e] = StrError
             /\ vectors' = vectors

\* a row marked "processing" belongs to a call that is inside its try block
BeingProcessed ==
    \A e \in DOMAIN entries :
        entries[e] = "processing"
            => \E s \in Slots : tasks[s].pc = "embed" /\ tasks[s].entry = e

\* C22: generate_embedding on an existing entry that is not done ends with the
\* entry done (vector stored, embedding_error cleared) or failed
\* (embedding_error set): an exception in the try block yields failed and
\* False, no entry stays in "processing" once its call has returned, and the
\* service makes one attempt
C22_GenerateEndsDoneOrFailed ==
    /\ []BeingProcessed
    /\ [][\A s \in Slots, ok \in BOOLEAN : task_embed(s, ok) => GenerateEnds(s)]_vars

C22_Witness ==
    /\ last = "task:failed"
    /\ entries["e1"] = "failed"
    /\ "e1" \in DOMAIN embedding_error
    /\ embedding_error["e1"] = StrError
    /\ "e1" \notin vectors
    /\ \A s \in Slots : tasks[s].entry # "e1"

\* slot s runs generate_embedding(e) on a row that is already done
MeetsDone(s, e) ==
    /\ tasks[s].pc = "loop"
    /\ e \in tasks[s].todo
    /\ e \in DOMAIN entries
    /\ entries[e] = "done"

\* slot s is a generate_entry_embedding job whose service call returned True
\* without entering its try block: the job of an entry that was already done
Redelivered(s) ==
    /\ tasks[s].pc = "reset"
    /\ tasks[s].job = "generate_entry_embedding"
    /\ ~tasks[s].called

InWindow(t) == {i \in DOMAIN recorded : recorded[i] > t - Window /\ recorded[i] <= t}

WithinRate ==
    \A t \in 0..MaxTime : Cardinality(InWindow(t)) <= max(1, limiter.rpm)

\* a step of acquire() either returns, and then it appends its timestamp to
\* fewer than rpm recorded calls of the trailing window, or leaves the caller
\* waiting for the lock or asleep under it
ReturnsOrDelays(a) ==
    IF acquirers'[a].pc = "idle"
    THEN /\ recorded' = Append(recorded, clock)
         /\ Cardinality(InWindow(clock)) < limiter.rpm
    ELSE /\ recorded' = recorded
         /\ acquirers'[a].pc \in {"lock", "sleep"}

\* C24: for one RateLimiter(rpm) and concurrent acquire() callers, no trailing
\* 60-second window holds more than rpm recorded calls; acquire() returns and
\* records only when fewer than rpm calls lie in the trailing window, and
\* otherwise it delays its caller
C24_AtMostRpmPerWindow ==
    /\ []WithinRate
    /\ [][\A a \in Callers :
            acquire(a) \/ acquire_locked(a) \/ acquire_wake(a)
                => ReturnsOrDelays(a)]_vars

C24_Witness ==
    /\ last = "acquire:slept"
    /\ limiter.rpm = 2
    /\ Len(recorded) = 3
    /\ recorded[3] = recorded[1] + Window
    /\ \E a \in Callers : acquirers[a].pc = "lock"

\* the call of client w ends with this step
RecreateEnds(w) == recreating[w].pc # "idle" /\ recreating'[w].pc = "idle"

\* the last poll still found the collection: the timeout error, nothing created
TimedOut(w) ==
    /\ last' = "recreate:timeout"
    /\ recreating[w].i = MaxPolls - 1
    /\ \E c \in CollectionNames : recreating[w].pc = c \o ":poll" /\ Exists(c)
    /\ UNCHANGED milvus

\* both collections are there for the arguments of the call
Recreated(w) ==
    /\ last' = "recreate:done"
    /\ \A c \in CollectionNames :
          /\ collections'[c].description
                = Description(c, recreating[w].provider, recreating[w].model,
                              recreating[w].dimension)
          /\ handles'[w][c] = collections'[c].gen

\* a collection was there again with another signature: RuntimeError
Refused(w) ==
    /\ last' = "recreate:conflict"
    /\ \E c \in CollectionNames : Conflict(c, recreating[w])
    /\ \A c \in CollectionNames : Exists(c) => collections'[c] = collections[c]

PollsBounded == \A w \in Clients : recreating[w].i < MaxPolls

\* C25 as stated: at most 30 polls per drop; the call ends with the timeout
\* error and no collection created, or with both collections recreated for
\* its dimension and signature
C25_TimeoutOrRecreated ==
    /\ []PollsBounded
    /\ [][\A w \in Clients :
            (recreate_poll(w) \/ recreate_create(w)) /\ RecreateEnds(w)
                => TimedOut(w) \/ Recreated(w)]_vars

\* C25, amended: at most 30 polls per drop; the call ends with the timeout
\* error and no collection created, with both collections there for its
\* dimension and signature, or with the error of _create_*_collection when a
\* collection of another signature exists again after the waits
C25_TimeoutRecreatedOrRefused ==
    /\ []PollsBounded
    /\ [][\A w \in Clients :
            (recreate_poll(w) \/ recreate_create(w)) /\ RecreateEnds(w)
                => TimedOut(w) \/ Recreated(w) \/ Refused(w)]_vars

C25_Witness ==
    /\ last = "recreate:timeout"
    /\ recreating["w1"] = IdleRecreate
    /\ ~Exists("entries")
    /\ Exists("prefs")
    /\ <<"prefs", collections["prefs"].gen>> \in dropping

\* the user has no preference vector, or entry e has no stored vector
DefaultCase(e) ==
    \/ scorerows.embeddings[e] = <<>>
    \/ ~scorerows.prefs["positive"].present /\ ~scorerows.prefs["negative"].present

\* the result of calculate_score is the default one: score 50, a reason code,
\* no similarity and no boost in it
DefaultWithReason(r) ==
    /\ r.score = 10 * default_score
    /\ r.reason \in {"no_embedding", "entry_not_found", "no_preference_model"}
    /\ r.positive_sim = 0 /\ r.negative_sim = 0
    /\ r.source_boost[1] = 0 /\ r.author_boost[1] = 0

\* C26 as stated: both scoring functions return the default score 50 together
\* with a reason code when the user has no preference vector or the article
\* has no stored vector
C26_DefaultScoreWithReason ==
    /\ scored.call = "calculate_score" /\ DefaultCase(scored.entry)
          => DefaultWithReason(scored.result)
    /\ scored.call = "batch_calculate_scores"
          => \A e \in Listed(scored.entries) :
                DefaultCase(e) => /\ scored.scores[e] = 10 * default_score
                                  /\ "reasons" \in DOMAIN scored

\* C26, amended: calculate_score returns the default score 50 with a reason
\* code and without similarities or boosts in these cases;
\* batch_calculate_scores returns the bare score 50 for these entries
C26_DefaultScore ==
    /\ scored.call = "calculate_score" /\ DefaultCase(scored.entry)
          => DefaultWithReason(scored.result)
    /\ scored.call = "batch_calculate_scores"
          => /\ DOMAIN scored = {"call", "entries", "scores", "fetched"}
             /\ \A e \in Listed(scored.entries) :
                   DefaultCase(e) => scored.scores[e] = 10 * default_score

C26_Witness ==
    /\ scored.call = "batch_calculate_scores"
    /\ scored.entries = <<"e1", "e2">>
    /\ scorerows.embeddings["e2"] = <<>>
    /\ scored.scores["e2"] = 10 * default_score
    /\ scored.scores["e1"] # 10 * default_score
    /\ scorerows.stats.present

\* the boost is ((positive - negative) / (positive + negative)) * max_boost,
\* and 0 when positive + negative is 0
BoostOf(boost, affinity, max_boost) ==
    IF affinity.positive + affinity.negative = 0 THEN boost[1] = 0
    ELSE EqualsFraction(boost, (affinity.positive - affinity.negative) * max_boost,
                        affinity.positive + affinity.negative)

\* C27: every score of calculate_score and batch_calculate_scores lies in
\* [0, 100] (0..1000 tenths), and the boosts of a computed score follow the
\* affinity formula
C27_ScoreInRange ==
    /\ scored.call = "calculate_score"
          => /\ scored.result.score \in 0..1000
             /\ scored.result.reason = Null /\ scorerows.stats.present
                   => /\ BoostOf(scored.result.source_boost,
                                 source_affinity(scorerows.stats, scored.entry),
                                 source_boost_max)
                      /\ BoostOf(scored.result.author_boost,
                                 author_affinity(scorerows.stats, scored.entry),
                                 author_boost_max)
    /\ scored.call = "batch_calculate_scores"
          => \A e \in Listed(scored.entries) : scored.scores[e] \in 0..1000

C27_Witness ==
    /\ scored.call = "calculate_score"
    /\ scored.result.score = 1000
    /\ scored.result.blended[1] > 100 * scored.result.blended[2]
    /\ scored.result.source_boost = <<20, 6>>
    /\ scored.result.author_boost = <<-12, 4>>

\* C28: with confidence 0 the score is exactly 50; with confidence 1 the
\* similarity part of the score is (raw + 1) / 2 * 100, not blended toward 50
C28_ConfidenceExtremes ==
    scored.call = "calculate_score"
        => /\ scored.result.confidence[1] = 0
                 => scored.result.score = 10 * default_score
           /\ scored.result.confidence = <<1, 1>>
                 => EqualsFraction(scored.result.blended,
                                   scored.result.positive_sim
                                       - scored.result.negative_sim + 100, 2)

C28_Witness ==
    /\ scored.call = "calculate_score"
    /\ scored.result.confidence = <<1, 1>>
    /\ scored.result.positive_sim = 60
    /\ scored.result.negative_sim = -60
    /\ EqualsFraction(scored.result.blended, 110, 1)
    /\ scored.result.score = 1000

C30_StatsQueriedOncePerUser == \A u \in Users : queries.stats[u] <= 1

\* ------------------------------------------------- filter expressions
\* the characters of an id: the two that _escape_string treats, and any other
Quote == "\""
Backslash == "\\"
Alphabet == {"x", Backslash, Quote}
Strings(n) == UNION {[1..k -> Alphabet] : k \in 0..n}

\* str.replace(old, new) for a one-character old
RECURSIVE replace(_, _, _)
replace(s, old, new) ==
    IF s = <<>> THEN <<>>
    ELSE (IF Head(s) = old THEN new ELSE <<Head(s)>>) \o replace(Tail(s), old, new)

\* the escaping without the doubling of the backslashes
escape_quotes_only(s) == replace(s, Quote, <<Backslash, Quote>>)

\* MilvusClient._escape_string
escape_string(s) ==
    replace(replace(s, Backslash, <<Backslash, Backslash>>), Quote, <<Backslash, Quote>>)

\* f'"{self._escape_string(s)}"'
quoted(s) == <<Quote>> \o escape_string(s) \o <<Quote>>

\* ", ".join(...)
RECURSIVE join(_)
join(parts) ==
    IF parts = <<>> THEN <<>>
    ELSE IF Len(parts) = 1 THEN parts[1]
    ELSE parts[1] \o <<", ">> \o join(Tail(parts))

\* get_entry_embedding(entry_id): the filter of its query
get_entry_embedding(entry_id) ==
    /\ filtered' = [call |-> "get_entry_embedding", ids |-> <<entry_id>>,
                    expr |-> <<"id == ">> \o quoted(entry_id)]
    /\ last' = "milvus:query"
    /\ UNCHANGED <<cfg, store, queue, tasks, failures, locking, milvus, pv, replaying,
                   limiting, recreation, scoring, loading, jobs, clients>>

\* batch_get_entry_embeddings(entry_ids): no query for an empty list
batch_get_entry_embeddings(entry_ids) ==
    IF entry_ids = <<>>
    THEN /\ filtered' = [call |-> "batch_get_entry_embeddings", ids |-> <<>>, expr |-> <<>>]
         /\ last' = "milvus:empty"
         /\ UNCHANGED <<cfg, store, queue, tasks, failures, locking, milvus, pv, replaying,
                        limiting, recreation, scoring, loading, jobs, clients>>
    ELSE /\ filtered' = [call |-> "batch_get_entry_embeddings", ids |-> entry_ids,
                         expr |-> <<"id in [">>
                                  \o join([i \in DOMAIN entry_ids |-> quoted(entry_ids[i])])
                                  \o <<"]">>]
         /\ last' = "milvus:query"
         /\ UNCHANGED <<cfg, store, queue, tasks, failures, locking, milvus, pv, replaying,
                        limiting, recreation, scoring, loading, jobs, clients>>

\* the filter language reads a string literal: text starts after the opening
\* quote; a backslash takes the next character literally, the first quote
\* that is not escaped closes the literal
RECURSIVE literal(_, _)
literal(text, value) ==
    IF text = <<>> THEN [closed |-> FALSE, value |-> value, rest |-> <<>>]
    ELSE IF Head(text) = Quote THEN [closed |-> TRUE, value |-> value, rest |-> Tail(text)]
    ELSE IF Head(text) = Backslash
         THEN IF Len(text) < 2 THEN [closed |-> FALSE, value |-> value, rest |-> <<>>]
              ELSE literal(Tail(Tail(text)), Append(value, text[2]))
    ELSE literal(Tail(text), Append(value, Head(text)))

\* the literals of a list up to its closing bracket, or Null when the text
\* is not a list of string literals and nothing else
RECURSIVE literals(_, _)
literals(text, values) ==
    IF text = <<>> \/ Head(text) # Quote THEN Null
    ELSE LET l == literal(Tail(text), <<>>)
         IN IF ~l.closed \/ l.rest = <<>> THEN Null
            ELSE IF l.rest = <<"]">> THEN Append(values, l.value)
            ELSE IF Head(l.rest) = ", " THEN literals(Tail(l.rest), Append(values, l.value))
            ELSE Null

\* the values an expression compares the id with, or Null when the
\* expression is anything but one comparison with string literals
compared(expr) ==
    IF expr = <<>> THEN Null
    ELSE IF Head(expr) = "id == "
         THEN IF Len(expr) < 2 \/ expr[2] # Quote THEN Null
              ELSE LET l == literal(Tail(Tail(expr)), <<>>)
                   IN IF l.closed /\ l.rest = <<>> THEN <<l.value>> ELSE Null
    ELSE IF Head(expr) = "id in [" THEN literals(Tail(expr), <<>>)
    ELSE Null

\* a filter depends on nothing but the ids: one query per behaviour
NextFilter ==
    \/ \E entry_id \in Strings(MaxLen) :
          filtered = NoFilter /\ get_entry_embedding(entry_id)
    \/ \E a, b \in Strings(MaxLen - 2) : \E entry_ids \in {<<>>, <<a>>, <<a, b>>} :
          filtered = NoFilter /\ batch_get_entry_embeddings(entry_ids)

SpecFilter == Init /\ [][NextFilter]_vars

\* every quote of the escaped text stands behind a backslash that escapes it:
\* read as the body of a literal, the text does not close the literal
NoBareQuote(s) ==
    LET l == literal(escape_string(s) \o <<Quote>>, <<>>)
    IN l.closed /\ l.rest = <<>> /\ l.value = s

\* C31: the escaped id holds no quote that is not escaped and decodes back
\* to the id, so every filter built from ids is one comparison with string
\* literals whose values are exactly the ids: no id adds a condition.
C31_EscapedIsOneLiteral ==
    filtered.expr # <<>> =>
        /\ \A i \in DOMAIN filtered.ids : NoBareQuote(filtered.ids[i])
        /\ compared(filtered.expr) = filtered.ids

\* the injection attempt: quote, other text, quote
C31_Witness ==
    /\ filtered.call = "get_entry_embedding"
    /\ filtered.ids = << <<Quote, "x", Quote>> >>
    /\ filtered.expr = <<"id == ", Quote, Backslash, Quote, "x", Backslash, Quote, Quote>>
    /\ compared(filtered.expr) = filtered.ids

\* the squared norm of a stored one-dimensional embedding
SquaredNorm(v) == v.embedding * v.embedding

\* C32: every stored preference vector has norm 1, except the vector whose
\* accumulated weighted embedding is exactly zero, which is stored as
\* accumulated (the zero vector).
C32_UnitNormUnlessZero ==
    \A p \in Polarities :
        pv[p].count > 0 =>
            IF pv[p].pre[1] = 0 THEN pv[p].embedding = 0 ELSE SquaredNorm(pv[p]) = 1

\* a dislike cancelled the negative vector, a bookmark started the positive one
C32_Witness ==
    /\ pv["negative"].count = 20
    /\ pv["negative"].pre[1] = 0
    /\ pv["negative"].embedding = 0
    /\ pv["positive"].count = 7
    /\ pv["positive"].pre = <<-7, 10>>
    /\ pv["positive"].embedding = -1

\* C33: a rebuild_embeddings that returns success has dropped and recreated
\* both collections before it marked the entries pending and enqueued the
\* jobs: when it returns, no vector of the old collections is left.
C33_RebuildDropsOldVectors ==
    [][rebuild_embeddings(TRUE) /\ last' = "rebuild:success"
          => /\ vectors' = {}
             /\ \A u \in Users, p \in Polarities : prefs'[u][p] = 0]_vars

\* ---------------------------------- SentenceTransformerProvider._get_model
\* the frame of the steps of _get_model
others == <<cfg, store, queue, tasks, failures, locking, milvus, pv, replaying,
            limiting, recreation, scoring, filtered, jobs, clients>>

\* cached = _model_cache[cache_key]; self._model = cached["model"]; ...
reuse(p) == own_model' = [own_model EXCEPT ![p] = TRUE]

\* _get_model up to the lock: self._model is set, or the cache holds the
\* model, or the thread goes on to take the lock
get_model(t, p) ==
    /\ getters[t].pc = "idle"
    /\ IF own_model[p]
       THEN /\ last' = "model:own"
            /\ UNCHANGED loading
       ELSE IF ProviderModels[p] \in model_cache
       THEN /\ reuse(p)
            /\ last' = "model:cached"
            /\ UNCHANGED <<model_cache, model_lock, getters>>
       ELSE /\ getters' = [getters EXCEPT ![t] = [pc |-> "lock", provider |-> p]]
            /\ last' = "model:wait"
            /\ UNCHANGED <<model_cache, model_lock, own_model>>
    /\ UNCHANGED others

\* with _model_lock, without the second look at the cache
get_model_locked_unchecked(t) ==
    /\ getters[t].pc = "lock"
    /\ model_lock = Null
    /\ model_lock' = t
    /\ getters' = [getters EXCEPT ![t].pc = "load"]
    /\ last' = "model:load"
    /\ UNCHANGED <<model_cache, own_model>>
    /\ UNCHANGED others

\* with _model_lock: the thread gets the lock and looks at the cache again
get_model_locked(t) ==
    /\ getters[t].pc = "lock"
    /\ model_lock = Null
    /\ LET p == getters[t].provider
       IN IF ProviderModels[p] \in model_cache
          THEN /\ reuse(p)
               /\ getters' = [getters EXCEPT ![t] = IdleGet]
               /\ last' = "model:cached_locked"
               /\ UNCHANGED <<model_cache, model_lock>>
          ELSE /\ model_lock' = t
               /\ getters' = [getters EXCEPT ![t].pc = "load"]
               /\ last' = "model:load"
               /\ UNCHANGED <<model_cache, own_model>>
    /\ UNCHANGED others

LoadOutcomes == {"loaded", "load_failed", "encode_failed"}

\* the load under the lock: device detection, _load_model_with_fallback, the
\* test encoding and the cache entry; an exception leaves the with block and
\* releases the lock, after the load it leaves self._model set
get_model_load(t, outcome) ==
    /\ getters[t].pc = "load"
    /\ LET p == getters[t].provider
       IN /\ own_model' = [own_model EXCEPT ![p] = @ \/ outcome # "load_failed"]
          /\ model_cache' = IF outcome = "loaded"
                            THEN model_cache \cup {ProviderModels[p]}
                            ELSE model_cache
    /\ model_lock' = Null
    /\ getters' = [getters EXCEPT ![t] = IdleGet]
    /\ last' = "model:" \o outcome
    /\ UNCHANGED others

\* SentenceTransformerProvider.close
close(p) ==
    /\ own_model[p]
    /\ \A t \in Threads : getters[t].provider # p
    /\ own_model' = [own_model EXCEPT ![p] = FALSE]
    /\ last' = "model:closed"
    /\ UNCHANGED <<model_cache, model_lock, getters>>
    /\ UNCHANGED others

NextModel ==
    \/ \E t \in Threads, p \in DOMAIN ProviderModels : get_model(t, p)
    \/ \E t \in Threads : get_model_locked(t)
    \/ \E t \in Threads, outcome \in LoadOutcomes : get_model_load(t, outcome)
    \/ \E p \in DOMAIN ProviderModels : close(p)

SpecModel == Init /\ [][NextModel]_vars

\* the threads that are loading a model
Loading == {t \in Threads : getters[t].pc = "load"}

\* no model is being loaded while the cache holds it, one thread loads at a
\* time and it holds the lock
LoadsOnlyUncached ==
    /\ Cardinality(Loading) <= 1
    /\ \A t \in Loading :
          /\ model_lock = t
          /\ ProviderModels[getters[t].provider] \notin model_cache

\* a provider without a model of its own that finds the cache entry, before
\* or after taking the lock, takes the cached model and starts no load
ReusesCached ==
    /\ \A t \in Threads, p \in DOMAIN ProviderModels :
          get_model(t, p) /\ ~own_model[p] /\ ProviderModels[p] \in model_cache
              => own_model'[p] /\ getters'[t] = IdleGet /\ model_cache' = model_cache
    /\ \A t \in Threads :
          get_model_locked(t) /\ ProviderModels[getters[t].provider] \in model_cache
              => /\ own_model'[getters[t].provider]
                 /\ getters'[t] = IdleGet
                 /\ model_cache' = model_cache

\* C34: with any callers of _get_model at once, a model is never loaded
\* while the cache holds it and never by two callers at a time; a caller
\* that finds the cache entry reuses it; the cache never loses an entry.
C34_LoadedAtMostOnce ==
    /\ []LoadsOnlyUncached
    /\ [][ReusesCached /\ model_cache \subseteq model_cache']_vars

\* t1 loaded and cached m1 while t2 waited for the lock; t2 then found the
\* entry under the lock
C34_Witness ==
    /\ last = "model:cached_locked"
    /\ model_cache = {"m1"}
    /\ own_model["p1"] /\ own_model["p2"]
    /\ getters["t3"].pc = "lock"
    /\ getters["t3"].provider = "p3"

\* C35: the configuration record is disabled exactly when its status is
\* disabled, in every state that the admin operations and the worker jobs
\* reach.
C35_DisabledIffStatusDisabled == cfg.enabled <=> cfg.status # DISABLED

\* ------------------------- generate_entry_embedding, step by step
\* the one MilvusClient of the worker process (ctx["milvus_client"])
Worker == "w1"

\* everything a step of a job leaves alone besides the rows, the
\* configuration, the queue and the store
idle_parts == <<liked, stats, tasks, failures, locking, pv, replaying, limiting,
                recreation, scoring, filtered, loading, clients>>

\* _handle_embedding_error, read and write in one step
handle_embedding_error(c) ==
    IF c.error_count + 1 >= CONSECUTIVE_FAILURES_THRESHOLD
    THEN set_embedding_status(c, ERROR, "circuit breaker")
    ELSE [c EXCEPT !.error_count = @ + 1]

\* _reset_error_count
reset_error_count(c) == IF c.error_count > 0 THEN [c EXCEPT !.error_count = 0] ELSE c

\* the job is taken from the queue and reads the configuration
\* (_check_vectorization_enabled, _load_embedding_settings)
job_start(s, e) ==
    /\ queue[JobGenerate(e)] > 0
    /\ jobs[s].pc = "idle"
    /\ queue' = Dequeue(queue, JobGenerate(e))
    /\ IF ~is_enabled(cfg)
       THEN /\ last' = "job:skipped"
            /\ UNCHANGED jobs
       ELSE /\ jobs' = [jobs EXCEPT ![s] =
                  [pc |-> "ensure", entry |-> e, user |-> Null,
                   provider |-> cfg.provider,
                   model |-> cfg.model, dimension |-> cfg.dimension]]
            /\ last' = "job:checked"
    /\ UNCHANGED <<cfg, store, milvus, idle_parts>>

\* ensure_collections with the settings the job read; an exception enters
\* _handle_embedding_error and ends the job
job_ensure(s, ok) ==
    /\ jobs[s].pc = "ensure"
    /\ ensured(Worker, jobs[s].dimension, jobs[s].provider, jobs[s].model, ok)
    /\ IF ok
       THEN /\ jobs' = [jobs EXCEPT ![s].pc = "read"]
            /\ UNCHANGED cfg
       ELSE /\ cfg.error_count < MaxErrorCount
            /\ jobs' = [jobs EXCEPT ![s] = IdleJob]
            /\ cfg' = handle_embedding_error(cfg)
    /\ UNCHANGED <<entries, embedding_error, liked, stats, queue, idle_parts>>

\* generate_embedding up to its "processing" mark: no row, a row that is
\* done (the job returns success and resets the error count), or the mark
job_read(s) ==
    /\ jobs[s].pc = "read"
    /\ LET e == jobs[s].entry
       IN IF e \notin DOMAIN entries
          THEN /\ jobs' = [jobs EXCEPT ![s] = IdleJob]
               /\ last' = "job:noentry"
               /\ UNCHANGED <<cfg, entries, embedding_error>>
          ELSE IF entries[e] = "done"
          THEN /\ jobs' = [jobs EXCEPT ![s] = IdleJob]
               /\ cfg' = reset_error_count(cfg)
               /\ last' = "job:already"
               /\ UNCHANGED <<entries, embedding_error>>
          ELSE /\ entries' = [entries EXCEPT ![e] = "processing"]
               /\ embedding_error' = [embedding_error EXCEPT ![e] = Null]
               /\ jobs' = [jobs EXCEPT ![s].pc = "embed"]
               /\ last' = "job:processing"
               /\ UNCHANGED cfg
    /\ UNCHANGED <<vectors, liked, prefs, stats, queue, milvus, idle_parts>>

\* the dimension the live entries collection was created with
CollectionDimension ==
    CHOOSE d \in Dimensions \cup {0} :
        \/ \E p \in Providers, m \in {"m1", "m2", "my model"} :
              collections["entries"].description = Description("entries", p, m, d)
        \/ d = 0 /\ \A p \in Providers, m \in {"m1", "m2", "my model"}, x \in Dimensions :
              collections["entries"].description # Description("entries", p, m, x)

\* the provider call with the client built from the settings the job read,
\* the insert into the entries collection and the "done" mark; any
\* exception (the provider, a collection that is gone, a vector of another
\* dimension than the collection's) marks the row failed
job_embed(s, ok) ==
    /\ jobs[s].pc = "embed"
    /\ LET e == jobs[s].entry
           r == insert_with_retry(Worker, "entries", "none")
           stored == ok /\ r.result = "ok" /\ CollectionDimension = jobs[s].dimension
       IN /\ handles' = IF r.attempts > 0 /\ Stale(Worker, "entries")
                        THEN refresh(Worker, "entries") ELSE handles
          /\ IF stored
             THEN /\ vectors' = vectors \cup {e}
                  /\ entries' = [entries EXCEPT ![e] = "done"]
                  /\ embedding_error' = [embedding_error EXCEPT ![e] = Null]
                  /\ cfg' = reset_error_count(cfg)
                  /\ last' = "job:done"
             ELSE /\ entries' = [entries EXCEPT ![e] = "failed"]
                  /\ embedding_error' = [embedding_error EXCEPT ![e] = StrError]
                  /\ last' = "job:failed"
                  /\ UNCHANGED <<vectors, cfg>>
    /\ jobs' = [jobs EXCEPT ![s] = IdleJob]
    /\ UNCHANGED <<liked, prefs, stats, queue, collections, idle_parts>>

\* a deployment whose model is changed while entries are being embedded
NextPipeline ==
    \/ enable_embedding
    \/ \E req \in {[model |-> "m2"]} : update_embedding_config(req, 8)
    \/ validate_and_rebuild_embeddings(TRUE, TRUE, TRUE)
    \/ rebuild_embeddings(TRUE)
    \/ get_embedding_status
    \/ \E e \in EntryIds : fetch_feed_task(e, TRUE)
    \/ \E s \in Slots, e \in EntryIds : job_start(s, e)
    \/ \E s \in Slots : job_ensure(s, TRUE)
    \/ \E s \in Slots : job_read(s)
    \/ \E s \in Slots, ok \in BOOLEAN : job_embed(s, ok)

SpecPipeline == Init /\ [][NextPipeline]_vars

\* C36: whenever the status is idle, every entry marked done has a vector in
\* the live entries collection, whatever the interleaving of embedding jobs
\* and a rebuild.
C36_DoneHasVectorWhenIdle ==
    cfg.status = IDLE =>
        \A e \in DOMAIN entries : entries[e] = "done" => e \in vectors

\* ------------------------- rebuild_user_preference, step by step
\* the job is taken from the queue and reads the configuration
\* (_check_vectorization_enabled); Retry leaves it in the queue
pref_start(s, u) ==
    /\ queue[JobRebuildPref(u)] > 0
    /\ jobs[s].pc = "idle"
    /\ IF pref_check(cfg) = "disabled"
       THEN /\ queue' = Dequeue(queue, JobRebuildPref(u))
            /\ last' = "rup:skipped"
            /\ UNCHANGED jobs
       ELSE IF pref_check(cfg) = "retry"
       THEN /\ last' = "rup:retry:" \o ToString(retry_defer(cfg))
            /\ UNCHANGED <<queue, jobs>>
       ELSE /\ queue' = Dequeue(queue, JobRebuildPref(u))
            /\ jobs' = [jobs EXCEPT ![s] =
                  [pc |-> "pref_ensure", entry |-> Null, user |-> u,
                   provider |-> cfg.provider, model |-> cfg.model,
                   dimension |-> cfg.dimension]]
            /\ last' = "rup:checked"
    /\ UNCHANGED <<cfg, store, milvus, idle_parts>>

\* ensure_collections with the settings the preference job read
pref_ensure(s) ==
    /\ jobs[s].pc = "pref_ensure"
    /\ ensured(Worker, jobs[s].dimension, jobs[s].provider, jobs[s].model, TRUE)
    /\ jobs' = [jobs EXCEPT ![s].pc = "replay"]
    /\ UNCHANGED <<cfg, entries, embedding_error, liked, stats, queue, idle_parts>>

\* PreferenceService.rebuild_from_history: the user's vectors and statistics
\* row are deleted and every reaction is passed to handle_preference_signal,
\* which returns at once for an entry without a vector
pref_replay(s) ==
    /\ jobs[s].pc = "replay"
    /\ LET u == jobs[s].user
       IN /\ \E order \in Orders(Feedback(u)) :
                /\ prefs' = rebuild_from_history(prefs, u, order)
                /\ replayed' = [replayed EXCEPT ![u] = order]
          /\ stats' = IF \E e \in DOMAIN entries :
                            liked[u][e] # "none" /\ e \in vectors
                      THEN stats \cup {u} ELSE stats \ {u}
    /\ jobs' = [jobs EXCEPT ![s] = IdleJob]
    /\ last' = "rup:done"
    /\ UNCHANGED <<cfg, entries, embedding_error, vectors, liked, queue, milvus,
                   tasks, failures, locking, pv, history, limiting, recreation,
                   scoring, filtered, loading, clients>>

\* the signature of the stored configuration
ActiveSignature == build_model_signature(cfg.provider, cfg.model, cfg.dimension)

\* both collections exist and were created for the stored configuration
CarryActive ==
    \A c \in CollectionNames :
        /\ Exists(c)
        /\ extract_model_signature(collections[c].description) = ActiveSignature

\* C38: the ensure_collections call of a job, made with the configuration
\* the job read, never drops collections that carry the signature of the
\* configuration that is stored now.
C38_StaleEnsureKeepsActive ==
    [][\A s \in Slots :
          CarryActive /\ job_ensure(s, TRUE) => collections' = collections]_vars

\* a deployment with reactions on embedded articles whose model is changed:
\* a reaction is given to an article that has its vector, and its
\* update_user_preference job runs while the collections are those of the
\* stored configuration (its ensure_collections call then changes nothing)
NextRestore ==
    \/ enable_embedding
    \/ \E req \in {[model |-> "m2"]} : update_embedding_config(req, 8)
    \/ validate_and_rebuild_embeddings(TRUE, TRUE, TRUE)
    \/ rebuild_embeddings(TRUE)
    \/ get_embedding_status
    \/ fetch_feed_task("e1", TRUE)
    \/ \E u \in Users :
          /\ cfg.status = IDLE /\ CarryActive
          /\ "e1" \in vectors /\ liked[u]["e1"] = "none"
          /\ react_entry(u, "e1", "like")
    \/ \E u \in Users :
          /\ CarryActive /\ "e1" \in vectors
          /\ update_user_preference(u, "e1", "like", TRUE, TRUE)
    \/ \E s \in Slots : job_start(s, "e1")
    \/ \E s \in Slots : job_ensure(s, TRUE)
    \/ \E s \in Slots : job_read(s)
    \/ \E s \in Slots : job_embed(s, TRUE)
    \/ \E s \in Slots, u \in Users : pref_start(s, u)
    \/ \E s \in Slots : pref_ensure(s)
    \/ \E s \in Slots : pref_replay(s)

SpecRestore == Init /\ [][NextRestore]_vars

\* the rebuild is over: the status is idle, no job is queued or running, the
\* collections are those of the stored configuration and every article is
\* embedded again
RebuildCompleted ==
    /\ cfg.status = IDLE
    /\ \A j \in Jobs : queue[j] = 0
    /\ \A s \in Slots : jobs[s] = IdleJob
    /\ CarryActive
    /\ \A e \in DOMAIN entries : entries[e] = "done" /\ e \in vectors

\* the user's rebuild_user_preference job ran and was given every reaction
\* the user has
Replayed(u) ==
    /\ Feedback(u) # {}
    /\ Len(replayed[u]) = Cardinality(Feedback(u))

\* the vectors and the statistics row stand for every like of the user
Accounted(u) ==
    /\ u \in stats
    /\ prefs[u]["positive"] =
          SIGNAL_WEIGHTS["like"] * Cardinality({e \in Feedback(u) : liked[u][e] = "like"})

\* C37: once a rebuild after a change of model is over, every user whose
\* preference rebuild job ran has vectors and statistics that account for
\* all of their reactions.
C37_RebuildRestoresPreferences ==
    RebuildCompleted /\ cfg.model = "m2" =>
        \A u \in Users : Replayed(u) => Accounted(u)

\* ------------------------- the EmbeddingClient of every embedding job
\* the provider calls the model follows
MaxSent == 3

\* EmbeddingClient(config=settings, rate_limit=rate_limit) of a job:
\* self._limiter = RateLimiter(rate_limit) if rate_limit else None
EmbeddingClient(s, rate_limit) ==
    /\ clients[s] = NoClient
    /\ clients' = [clients EXCEPT ![s] =
          [pc |-> "built",
           rpm |-> IF rate_limit = 0 THEN 0 ELSE max(1, rate_limit),
           timestamps |-> <<>>]]
    /\ last' = "client:new"
    /\ UNCHANGED <<cfg, store, queue, tasks, failures, locking, milvus, pv, replaying,
                   limiting, recreation, scoring, filtered, loading, jobs>>

\* EmbeddingClient.generate_embedding of the job's client: acquire() on the
\* client's own limiter, which waits while its own list holds rpm timestamps
\* of the window, and the call to the provider; the job ends and its client
\* is dropped
generate_embedding(s) ==
    /\ clients[s].pc = "built"
    /\ Len(recorded) < MaxSent
    /\ clients[s].rpm > 0 =>
          Len(drop_old(clients[s].timestamps, clock)) < clients[s].rpm
    /\ recorded' = Append(recorded, clock)
    /\ clients' = [clients EXCEPT ![s] = NoClient]
    /\ last' = "client:sent"
    /\ UNCHANGED <<clock, limiter, acquirers>>
    /\ UNCHANGED <<cfg, store, queue, tasks, failures, locking, milvus, pv, replaying,
                   recreation, scoring, filtered, loading, jobs>>

\* embedding jobs of one worker with a limit of two requests per minute
NextClients ==
    \/ tick
    \/ \E s \in Slots : EmbeddingClient(s, 2)
    \/ \E s \in Slots : generate_embedding(s)

SpecClients == Init /\ [][NextClients]_vars

\* C39: over all the embedding jobs of a worker, no 60-second window holds
\* more calls to the provider than the configured requests per minute.
C39_WorkerWithinRate ==
    \A t \in 0..MaxTime : Cardinality(InWindow(t)) <= 2

\* ------------------------- the rebuild under a worker that runs its jobs
\* arq takes every queued job and runs every started job to its end, and
\* the admin page polls GET /embedding/status
PipelineFairness ==
    /\ WF_vars(get_embedding_status)
    /\ WF_vars(validate_and_rebuild_embeddings(TRUE, TRUE, TRUE))
    /\ WF_vars(rebuild_embeddings(TRUE))
    /\ \A s \in Slots :
          /\ WF_vars(\E e \in EntryIds : job_start(s, e))
          /\ WF_vars(job_ensure(s, TRUE))
          /\ WF_vars(job_read(s))
          /\ WF_vars(\E ok \in BOOLEAN : job_embed(s, ok))

SpecLive == Init /\ [][NextPipeline]_vars /\ PipelineFairness

\* C40: when every job is executed and the status endpoint keeps being
\* read, a status of rebuilding is eventually left, for any number of
\* entries.
C40_RebuildingIsLeft == (cfg.status = REBUILDING) ~> (cfg.status # REBUILDING)

====
